---- MODULE Spec2Model ----
(***************************************************************************)
(* A model of the multi-cloud compute management layer: the Regional       *)
(* Adapter (src/providers/aws_manager.py, class AWSManager) and the Zonal  *)
(* Adapter (src/providers/gcp_manager.py, class GCPManager), with the      *)
(* vendor services they call modelled as state the adapters' requests read *)
(* and change.                                                             *)
(*                                                                         *)
(* Each group of operations has its own variables and its own              *)
(* specification; a specification leaves the other groups' variables at    *)
(* their idle values.                                                      *)
(*   SpecName     the normalisation of one vendor record (Regional)        *)
(*   SpecList     AWSManager.list_compute_instances                        *)
(***************************************************************************)
EXTENDS Integers, Sequences, FiniteSets, TLC

(***************************************************************************)
(* Optional values: Python's None and a present value.                     *)
(***************************************************************************)
None == <<>>
Some(x) == <<x>>

Range(s) == {s[k] : k \in DOMAIN s}

\* All sequences over S of length at most n.
SeqsUpTo(S, n) == UNION {[1..k -> S] : k \in 0..n}

(***************************************************************************)
(* Bounds of the model.                                                    *)
(***************************************************************************)
\* Longest tag list of a vendor record.
MaxTags == 3
\* Longest configured region list.
MaxRegions == 2
\* Number of vendor instances that may exist at a vendor.
MaxInst == 2
\* Number of reservations a region's describe response may hold.
MaxRes == 2
\* Longest tag list given to modify_instance.
MaxCallTags == 2
\* Number of fingerprints the Zonal vendor hands out after the first: the
\* number of mutating calls (create, set labels, set metadata) that may begin.
MaxFresh == 3
\* Number of objects a bucket may hold.
MaxObjects == 4
\* Number of images the vendor may report.
MaxImages == 3
\* Largest count argument of the Regional create_instance.
MaxCount == 2
\* Number of instances the Regional vendor may hold.
MaxCreated == 3
\* Longest machine_type argument, in string parts.
MaxParts == 5
\* Longest configured project list and longest configured zone list.
MaxProjects == 2
MaxZones == 2

VARIABLES
    \* -- SpecName: one vendor record and its normalisation
    nInst,      \* the vendor record (a function; "Tags" may be no key of it)
    nRegion,    \* the region being queried
    nOut,       \* None, or Some(the ComputeInstance built from nInst)
    \* -- SpecList: AWSManager.list_compute_instances
    regions,    \* self.regions
    ec2,        \* the vendor: region -> describe_instances' "Reservations"
    lpc,        \* "none" (no adapter) | "idle" | "loop" | "returned" | "raised"
    li,         \* index in self.regions of the region the loop queries next
    instances,  \* the local list `instances`
    lresult,    \* the value the last call returned
    lerr,       \* None, or Some(the error the last call raised)
    lreqs,      \* the vendor requests the current call has issued, in order
    \* -- SpecZList: GCPManager.list_compute_instances
    projects,   \* self.projects
    zones,      \* self.zones
    gce,        \* the vendor: project -> zone -> the instances client.list yields
    zpc,        \* "none" (no adapter) | "idle" | "loop" | "returned" | "raised"
    zpi,        \* index in self.projects of the project being listed
    zzi,        \* index in self.zones of the zone listed next
    zinstances, \* the local list `instances`
    zresult,    \* the value the last call returned
    zerr,       \* None, or Some(the error the last call raised)
    zreqs,      \* the vendor requests the current call has issued, in order
    \* -- SpecQualify: the machine type GCPManager.create_instance sends
    qMachineType, \* the machine_type argument, as a sequence of string parts
    qZone,        \* the zone argument
    qSent,        \* None, or Some(instance.machine_type as sent to the vendor)
    \* -- SpecModify: AWSManager.modify_instance
    mTags,      \* the vendor: instance id -> the instance's tag list
    mCall,      \* None, or Some(the arguments of the last modify_instance call)
    mOutcome,   \* "none" | "returned" | "raised": how the last call ended
    mReqs,      \* the vendor requests the last call issued, in order
    \* -- SpecZonal: the Zonal Adapter's calls on one instance, by two callers
    gInst,      \* the vendor: None, or Some(the instance record)
    gFresh,     \* the next fingerprint the vendor hands out
    gOp,        \* caller -> None, or Some(the operation its last request returned)
    cpc,        \* caller -> where its call stands
    cCall,      \* caller -> None, or Some(the call: kind and argument)
    cLocal,     \* caller -> None, or Some(the instance its call read with get)
    cResult,    \* caller -> None, or Some(the value its call returned)
    cErr,       \* caller -> None, or Some(the error its call raised)
    cReqs,      \* caller -> the vendor requests its call has issued, in order
    cClean,     \* caller -> no other caller's change was applied since its call began
    \* -- SpecBucket: GCPManager.delete_bucket and force_delete_bucket
    bObjects,   \* the vendor: None, or Some(the set of the bucket's object names)
    bCall,      \* "none" | "delete" | "force": the call in progress or ended last
    bStart,     \* the vendor's bObjects when that call began
    bpc,        \* "idle" | "loop" | "returned" | "raised"
    bBlobs,     \* the listing the force-delete loop iterates
    bi,         \* index in bBlobs of the blob the loop deletes next
    bErr,       \* None, or Some(the error the call raised)
    bReqs,      \* the vendor requests the call has issued, in order
    \* -- SpecImages: AWSManager.get_amis
    iImages,    \* the vendor: describe_images' "Images"
    iResult,    \* None, or Some(the list get_amis returned)
    iErr,       \* None, or Some(the error get_amis raised)
    \* -- SpecGuard: GCPManager.__init__, its activation guard, and the clients
    \*    the methods of the constructed adapter send their requests with
    sCredFile,  \* the credentials_file argument: None or Some(path)
    sProjects,  \* self.projects
    sService,   \* the vendor: project -> state of compute.googleapis.com
    sEnabling,  \* the vendor: projects with an enable operation still running
    spc,        \* "none" (no adapter) | "check" | "enable" | "handler" | "constructed" | "raised"
    si,         \* index in sProjects of the project the guard handles
    sServiceUsage, \* self.serviceusage: the credentials the client was built with
    sClient,    \* self.client: None, or Some(the credentials it was built with)
    sStorage,   \* self.storage_client: None, or Some(its credentials)
    sErr,       \* None, or Some(the error the constructor raised)
    sReqs,      \* the vendor requests the constructor issued, in order
    sMethod,    \* None, or Some(the last vendor request a method issued)
    \* -- SpecCreate: AWSManager.create_instance
    rStore,     \* the vendor: instance id -> tag list, for the instances that exist
    rpc,        \* "none" (no adapter) | "idle" | "tag" | "returned" | "raised"
    rName,      \* the call's name argument
    rCount,     \* the call's count argument
    rBefore,    \* the ids the vendor held when the call began
    rIds,       \* instance_ids, from the run response
    rResult,    \* None, or Some(the list the call returned)
    rErr,       \* None, or Some(the error the call raised)
    rReqs       \* the vendor requests the call has issued, in order

nameVars == <<nInst, nRegion, nOut>>
listVars == <<regions, ec2, lpc, li, instances, lresult, lerr, lreqs>>
zlistVars == <<projects, zones, gce, zpc, zpi, zzi, zinstances, zresult, zerr, zreqs>>
qualifyVars == <<qMachineType, qZone, qSent>>
modifyVars == <<mTags, mCall, mOutcome, mReqs>>
zonalVars == <<gInst, gFresh, gOp, cpc, cCall, cLocal, cResult, cErr, cReqs, cClean>>
bucketVars == <<bObjects, bCall, bStart, bpc, bBlobs, bi, bErr, bReqs>>
imageVars == <<iImages, iResult, iErr>>
guardVars == <<sCredFile, sProjects, sService, sEnabling, spc, si, sServiceUsage,
               sClient, sStorage, sErr, sReqs, sMethod>>
createVars == <<rStore, rpc, rName, rCount, rBefore, rIds, rResult, rErr, rReqs>>
vars == <<nameVars, listVars, zlistVars, qualifyVars, modifyVars, zonalVars,
          bucketVars, imageVars, guardVars, createVars>>

\* What each specification leaves alone.
notName == <<listVars, zlistVars, qualifyVars, modifyVars, zonalVars,
    bucketVars, imageVars,
    guardVars, createVars>>
notList == <<nameVars, zlistVars, qualifyVars, modifyVars, zonalVars,
    bucketVars, imageVars,
    guardVars, createVars>>
notZList == <<nameVars, listVars, qualifyVars, modifyVars, zonalVars,
    bucketVars, imageVars,
    guardVars, createVars>>
notQualify == <<nameVars, listVars, zlistVars, modifyVars, zonalVars,
    bucketVars, imageVars,
    guardVars, createVars>>
notModify == <<nameVars, listVars, zlistVars, qualifyVars, zonalVars,
    bucketVars, imageVars,
    guardVars, createVars>>
notZonal == <<nameVars, listVars, zlistVars, qualifyVars, modifyVars,
    bucketVars, imageVars,
    guardVars, createVars>>
notBucket == <<nameVars, listVars, zlistVars, qualifyVars, modifyVars, zonalVars,
    imageVars,
    guardVars, createVars>>
notImages == <<nameVars, listVars, zlistVars, qualifyVars, modifyVars, zonalVars,
    bucketVars,
    guardVars, createVars>>
notGuard == <<nameVars, listVars, zlistVars, qualifyVars, modifyVars, zonalVars,
    bucketVars, imageVars, createVars>>
notCreate == <<nameVars, listVars, zlistVars, qualifyVars, modifyVars, zonalVars,
    bucketVars, imageVars, guardVars>>

(***************************************************************************)
(* The Regional vendor's vocabulary.                                       *)
(***************************************************************************)
DefaultRegion == "us-east-1"
Regions == {"us-east-1", "eu-west-1"}
InstanceIds == {"i-0001", "i-0002", "i-0003", "i-0004"}
TagKeys == {"Name", "name", "env"}
TagValues == {"web-1", "db-2"}
Tag(k, v) == [Key |-> k, Value |-> v]
TagPairs == {Tag(k, v) : k \in TagKeys, v \in TagValues}

\* A vendor instance record without and with the optional "Tags" key.
Untagged(id, type, state) ==
    [InstanceId |-> id, InstanceType |-> type, State |-> [Name |-> state]]
Tagged(id, type, state, tags) ==
    [InstanceId |-> id, InstanceType |-> type, State |-> [Name |-> state],
     Tags |-> tags]

(***************************************************************************)
(* core/models.py: ComputeInstance.                                        *)
(***************************************************************************)
ComputeInstance(instance_id, name, provider, region, instance_type, status, project) ==
    [instance_id |-> instance_id, name |-> name, provider |-> provider,
     region |-> region, instance_type |-> instance_type, status |-> status,
     project |-> project]

(***************************************************************************)
(* aws_manager.py 24-29: the tag loop.  name starts as None; the first tag *)
(* whose Key is "Name" sets it and breaks the loop.                        *)
(***************************************************************************)
RECURSIVE TagLoopLast(_, _, _)
TagLoopLast(tags, k, name) ==
    IF k > Len(tags) THEN name
    ELSE IF tags[k].Key = "Name" THEN TagLoopLast(tags, k + 1, Some(tags[k].Value))
    ELSE TagLoopLast(tags, k + 1, name)

RECURSIVE TagLoop(_, _, _)
TagLoop(tags, k, name) ==
    IF k > Len(tags) THEN name
    ELSE IF tags[k].Key = "Name" THEN Some(tags[k].Value)
    ELSE TagLoop(tags, k + 1, name)

NameOf(inst) ==
    IF "Tags" \in DOMAIN inst THEN TagLoop(inst.Tags, 1, None) ELSE None

\* aws_manager.py 24-38: one vendor record normalised.
ToComputeInstance(inst, region) ==
    ComputeInstance(inst.InstanceId, NameOf(inst), "aws", region,
                    inst.InstanceType, inst.State.Name, None)

(***************************************************************************)
(* SpecName: the normalisation applied to one vendor record.               *)
(***************************************************************************)
NameRecords ==
    {Untagged("i-0001", "t2.micro", "running")} \cup
    {Tagged("i-0001", "t2.micro", "running", tags) :
        tags \in SeqsUpTo(TagPairs, MaxTags)}

NameIdle == nInst = Untagged("i-0001", "t2.micro", "running")
            /\ nRegion = DefaultRegion /\ nOut = None

InitName ==
    /\ nInst \in NameRecords
    /\ nRegion \in Regions
    /\ nOut = None

Normalize ==
    /\ nOut = None
    /\ nOut' = Some(ToComputeInstance(nInst, nRegion))
    /\ UNCHANGED <<nInst, nRegion, notName>>

(***************************************************************************)
(* The Regional vendor's state for the listing: every region's             *)
(* describe_instances response, a list of reservations each holding a list *)
(* of instance records.  Instance ids are unique across the vendor.        *)
(***************************************************************************)
IdSeq == <<"i-0001", "i-0002", "i-0003", "i-0004">>
ListIds == {IdSeq[k] : k \in 1..MaxInst}
TypeOf(id) == IF id = "i-0001" THEN "t2.micro" ELSE "m5.large"
Variants == {"tagged-running", "untagged-stopped"}
VendorRecord(id, variant) ==
    IF variant = "tagged-running"
    THEN Tagged(id, TypeOf(id), "running",
                <<Tag("env", "db-2"), Tag("Name", "web-1")>>)
    ELSE Untagged(id, TypeOf(id), "stopped")

Slots == {<<r, k>> : r \in Regions, k \in 1..MaxRes}

\* The instances of reservation k of region r, in id order.
ReservationAt(r, k, place, variant) ==
    LET Here(j) == j <= MaxInst /\ place[IdSeq[j]] = <<r, k>>
        idx == SelectSeq([j \in 1..Len(IdSeq) |-> j], Here)
    IN  [j \in 1..Len(idx) |-> VendorRecord(IdSeq[idx[j]], variant[IdSeq[idx[j]]])]

\* A region's reservations: the vendor reports no empty reservation.
ReservationsOf(r, place, variant) ==
    LET NonEmpty(res) == Len(res) > 0
    IN  SelectSeq([k \in 1..MaxRes |-> ReservationAt(r, k, place, variant)], NonEmpty)

VendorStates ==
    {[r \in Regions |-> ReservationsOf(r, place, variant)] :
        place \in [ListIds -> {None} \cup Slots],
        variant \in [ListIds -> Variants]}

\* aws_manager.py 14: self.regions = regions or ["us-east-1"].
AWSManagerInit(regionsArg) ==
    IF regionsArg = <<>> THEN <<DefaultRegion>> ELSE regionsArg

\* The vendor's describe_instances in a region: it reads and changes nothing.
DescribeInstances(region) == [Reservations |-> ec2[region]]

\* aws_manager.py 23-38: the loop over one reservation's instances.
RECURSIVE InstLoop(_, _, _, _)
InstLoop(insts, b, region, acc) ==
    IF b > Len(insts) THEN acc
    ELSE InstLoop(insts, b + 1, region, Append(acc, ToComputeInstance(insts[b], region)))

\* aws_manager.py 22-38: the loop over a response's reservations.
RECURSIVE ResLoop(_, _, _, _)
ResLoop(reservations, a, region, acc) ==
    IF a > Len(reservations) THEN acc
    ELSE ResLoop(reservations, a + 1, region,
                 InstLoop(reservations[a].Instances, 1, region, acc))

AsResponse(reservations) ==
    [a \in 1..Len(reservations) |-> [Instances |-> reservations[a]]]

AwsRequest(api, region) == [api |-> api, region |-> region]

\* The errors a failing vendor request raises (botocore's exceptions).
VendorErrors == {"ClientError"}

\* The errors a failing describe_instances request raises: botocore's
\* ClientError for a request the vendor answered with an error code, and
\* EndpointConnectionError for a region's endpoint that cannot be reached.
ClientError(operation, code) ==
    [type |-> "ClientError", operation |-> operation, code |-> code]
EndpointConnectionError(region) ==
    [type |-> "EndpointConnectionError",
     endpoint_url |-> <<"https://ec2.", region, ".amazonaws.com/">>]
DescribeErrors(region) ==
    {ClientError("DescribeInstances", "UnauthorizedOperation"),
     EndpointConnectionError(region)}

\* str(error), in string parts: what the caller reads in the exception.
ErrorText(error) ==
    IF error.type = "ClientError"
    THEN <<"An error occurred (", error.code, ") when calling the ",
           error.operation, " operation">>
    ELSE <<"Could not connect to the endpoint URL: ">> \o error.endpoint_url

ListIdle ==
    /\ regions = <<DefaultRegion>>
    /\ ec2 = [r \in Regions |-> <<>>]
    /\ lpc = "none" /\ li = 1 /\ instances = <<>>
    /\ lresult = <<>> /\ lerr = None /\ lreqs = <<>>

InitList ==
    /\ \E regionsArg \in SeqsUpTo(Regions, MaxRegions) :
           regions = AWSManagerInit(regionsArg)
    /\ ec2 \in VendorStates
    /\ lpc = "idle" /\ li = 1 /\ instances = <<>>
    /\ lresult = <<>> /\ lerr = None /\ lreqs = <<>>

\* aws_manager.py 17-18: a call starts.
ListStart ==
    /\ lpc \in {"idle", "returned", "raised"}
    /\ lpc' = "loop" /\ li' = 1 /\ instances' = <<>>
    /\ lresult' = <<>> /\ lerr' = None /\ lreqs' = <<>>
    /\ UNCHANGED <<regions, ec2, notList>>

\* aws_manager.py 19-38: one region is described and its records appended.
ListRegion ==
    /\ lpc = "loop" /\ li <= Len(regions)
    /\ LET region == regions[li]
           response == DescribeInstances(region)
       IN  /\ lreqs' = Append(lreqs, AwsRequest("describe_instances", region))
           /\ instances' = ResLoop(AsResponse(response.Reservations), 1, region, instances)
    /\ li' = li + 1
    /\ UNCHANGED <<regions, ec2, lpc, lresult, lerr, notList>>

\* A loop that notes the error of a failing region and goes on to the next.
ListRegionFailsIsolated ==
    /\ lpc = "loop" /\ li <= Len(regions)
    /\ \E e \in DescribeErrors(regions[li]) : lerr' = Some(e)
    /\ lreqs' = Append(lreqs, AwsRequest("describe_instances", regions[li]))
    /\ li' = li + 1
    /\ UNCHANGED <<regions, ec2, lpc, instances, lresult, notList>>

\* aws_manager.py 21: the describe request fails; nothing catches the error.
ListRegionFails ==
    /\ lpc = "loop" /\ li <= Len(regions)
    /\ \E e \in DescribeErrors(regions[li]) : lerr' = Some(e)
    /\ lreqs' = Append(lreqs, AwsRequest("describe_instances", regions[li]))
    /\ lpc' = "raised"
    /\ UNCHANGED <<regions, ec2, li, instances, lresult, notList>>

\* aws_manager.py 39: return instances.
ListReturn ==
    /\ lpc = "loop" /\ li > Len(regions)
    /\ lresult' = instances
    /\ lpc' = "returned"
    /\ UNCHANGED <<regions, ec2, li, instances, lerr, lreqs, notList>>

(***************************************************************************)
(* The Zonal vendor's state for the listing: the instances client.list     *)
(* yields for every project and zone.  The vendor's instance id is a       *)
(* number; its machine_type is a full resource URL.                        *)
(***************************************************************************)
DefaultZone == "us-central1-a"
Projects == {"my-proj", "other-proj"}
Zones == {"us-central1-a", "europe-west1-b"}
GceIdSeq == <<7, 40, 123, 5060>>
GceIds == {GceIdSeq[k] : k \in 1..MaxInst}
MachineTypeUrl(project, zone) ==
    <<"https://www.googleapis.com/compute/v1/projects", project, "zones", zone,
      "machineTypes", "n1-standard-1">>
GceStatus(id) ==
    IF id = 7 THEN "RUNNING" ELSE IF id = 40 THEN "TERMINATED" ELSE "STAGING"
GceRecord(id, project, zone) ==
    [id |-> id, name |-> <<"vm", id>>, machine_type |-> MachineTypeUrl(project, zone),
     status |-> GceStatus(id)]

GceScopes == Projects \X Zones

InstancesAt(project, zone, place) ==
    LET Here(j) == j <= MaxInst /\ place[GceIdSeq[j]] = <<project, zone>>
        idx == SelectSeq([j \in 1..Len(GceIdSeq) |-> j], Here)
    IN  [j \in 1..Len(idx) |-> GceRecord(GceIdSeq[idx[j]], project, zone)]

GceStates ==
    {[p \in Projects |-> [z \in Zones |-> InstancesAt(p, z, place)]] :
        place \in [GceIds -> {None} \cup GceScopes]}

\* gcp_manager.py 25-26: self.projects = projects or []; self.zones = zones or [...].
GCPManagerProjects(projectsArg) == IF projectsArg = <<>> THEN <<>> ELSE projectsArg
GCPManagerZones(zonesArg) == IF zonesArg = <<>> THEN <<DefaultZone>> ELSE zonesArg

\* Python's str() of a non-negative int: its decimal digits, most significant first.
Digits == <<"0", "1", "2", "3", "4", "5", "6", "7", "8", "9">>
RECURSIVE Str(_)
Str(n) == IF n < 10 THEN <<Digits[n + 1]>> ELSE Str(n \div 10) \o <<Digits[(n % 10) + 1]>>

\* gcp_manager.py 78-86: one vendor instance normalised.
ToGcpComputeInstance(inst, project, zone) ==
    ComputeInstance(Str(inst.id), inst.name, "gcp", zone, inst.machine_type,
                    inst.status, Some(project))

\* gcp_manager.py 75-86: the loop over the instances of one project and zone.
RECURSIVE ZInstLoop(_, _, _, _, _)
ZInstLoop(insts, b, project, zone, acc) ==
    IF b > Len(insts) THEN acc
    ELSE ZInstLoop(insts, b + 1, project, zone,
                   Append(acc, ToGcpComputeInstance(insts[b], project, zone)))

\* The vendor's instances.list for a project and zone: it changes nothing.
ClientList(project, zone) == gce[project][zone]

GcpRequest(api, project, zone) == [api |-> api, project |-> project, zone |-> zone]

\* The errors a failing vendor request raises (google.api_core's exceptions).
GcpErrors == {"GoogleAPICallError"}

ZListIdle ==
    /\ projects = <<>> /\ zones = <<DefaultZone>>
    /\ gce = [p \in Projects |-> [z \in Zones |-> <<>>]]
    /\ zpc = "none" /\ zpi = 1 /\ zzi = 1 /\ zinstances = <<>>
    /\ zresult = <<>> /\ zerr = None /\ zreqs = <<>>

InitZList ==
    /\ \E projectsArg \in SeqsUpTo(Projects, MaxProjects) :
           projects = GCPManagerProjects(projectsArg)
    /\ \E zonesArg \in SeqsUpTo(Zones, MaxZones) :
           zones = GCPManagerZones(zonesArg)
    /\ gce \in GceStates
    /\ zpc = "idle" /\ zpi = 1 /\ zzi = 1 /\ zinstances = <<>>
    /\ zresult = <<>> /\ zerr = None /\ zreqs = <<>>

\* gcp_manager.py 70-71: a call starts.
ZListStart ==
    /\ zpc \in {"idle", "returned", "raised"}
    /\ zpc' = "loop" /\ zpi' = 1 /\ zzi' = 1 /\ zinstances' = <<>>
    /\ zresult' = <<>> /\ zerr' = None /\ zreqs' = <<>>
    /\ UNCHANGED <<projects, zones, gce, notZList>>

\* The loop indices after the zone at zzi of the project at zpi.
NextZone == IF zzi < Len(zones) THEN <<zpi, zzi + 1>> ELSE <<zpi + 1, 1>>

\* gcp_manager.py 72-86: one project and zone is listed, its instances appended.
ZListScope ==
    /\ zpc = "loop" /\ zpi <= Len(projects) /\ zzi <= Len(zones)
    /\ LET project == projects[zpi]
           zone == zones[zzi]
       IN  /\ zreqs' = Append(zreqs, GcpRequest("list", project, zone))
           /\ zinstances' = ZInstLoop(ClientList(project, zone), 1, project, zone,
                                      zinstances)
    /\ zpi' = NextZone[1] /\ zzi' = NextZone[2]
    /\ UNCHANGED <<projects, zones, gce, zpc, zresult, zerr, notZList>>

\* gcp_manager.py 75: the list request fails; nothing catches the error.
ZListScopeFails ==
    /\ zpc = "loop" /\ zpi <= Len(projects) /\ zzi <= Len(zones)
    /\ \E e \in GcpErrors : zerr' = Some(e)
    /\ zreqs' = Append(zreqs, GcpRequest("list", projects[zpi], zones[zzi]))
    /\ zpc' = "raised"
    /\ UNCHANGED <<projects, zones, gce, zpi, zzi, zinstances, zresult, notZList>>

\* gcp_manager.py 87: return instances.
ZListReturn ==
    /\ zpc = "loop" /\ zpi > Len(projects)
    /\ zresult' = zinstances
    /\ zpc' = "returned"
    /\ UNCHANGED <<projects, zones, gce, zpi, zzi, zinstances, zerr, zreqs, notZList>>

(***************************************************************************)
(* gcp_manager.py 147-151: the machine type create_instance sends.         *)
(*                                                                         *)
(* A string is a sequence of parts, each part a run of characters.  The    *)
(* two literals of the pattern are parts; a class part is a run of         *)
(* characters of [a-z\d\-]; every other part holds a character outside the *)
(* class.  No part is the empty string and no concatenation of other parts *)
(* spells a literal, so a match on the characters is a match on the parts. *)
(***************************************************************************)
LitZones == "zones/"
LitMachineTypes == "/machineTypes/"
ClassParts == {"n1-standard-1", "us-central1-a"}
Newline == "\n"
OtherParts == {Newline, "N1_", "projects/my-proj/",
               "https://www.googleapis.com/compute/v1/"}
Parts == {LitZones, LitMachineTypes} \cup ClassParts \cup OtherParts

\* [a-z\d\-]+ from position k, greedy: the position after the run of class parts.
RECURSIVE ClassRun(_, _)
ClassRun(s, k) == IF k <= Len(s) /\ s[k] \in ClassParts THEN ClassRun(s, k + 1) ELSE k

\* Python's $ without re.MULTILINE: the end of the string, or just before a
\* newline that is the string's last character.
AtDollar(s, k) == k = Len(s) + 1 \/ (k = Len(s) /\ s[k] = Newline)

\* $ as the end of the string alone (\Z).
AtEndOnly(s, k) == k = Len(s) + 1

\* re.match(r"^zones/[a-z\d\-]+/machineTypes/[a-z\d\-]+$", s)
ReMatch(s) ==
    /\ Len(s) >= 1 /\ s[1] = LitZones
    /\ LET a == ClassRun(s, 2)
       IN  /\ a > 2 /\ a <= Len(s) /\ s[a] = LitMachineTypes
           /\ LET b == ClassRun(s, a + 1)
              IN  b > a + 1 /\ AtDollar(s, b)

\* gcp_manager.py 148-151: instance.machine_type.
MachineTypeSent(machine_type, zone) ==
    IF ReMatch(machine_type) THEN machine_type
    ELSE <<LitZones, zone, LitMachineTypes>> \o machine_type

QualifyIdle == qMachineType = <<>> /\ qZone = DefaultZone /\ qSent = None

InitQualify ==
    /\ qMachineType \in SeqsUpTo(Parts, MaxParts)
    /\ qZone \in Zones
    /\ qSent = None

Qualify ==
    /\ qSent = None
    /\ qSent' = Some(MachineTypeSent(qMachineType, qZone))
    /\ UNCHANGED <<qMachineType, qZone, notQualify>>

(***************************************************************************)
(* aws_manager.py 125-142: modify_instance, and the vendor's tag store.    *)
(***************************************************************************)
ModIds == {"i-0001", "i-0002"}
\* An id the vendor does not know.
MissingId == "i-0003"
ModRegionOf(id) == IF id = "i-0001" THEN "us-east-1" ELSE "eu-west-1"
ModPairs == {Tag("env", "prod"), Tag("team", "x")}

KeysOf(tags) == {tags[k].Key : k \in DOMAIN tags}

\* The vendor's create_tags on one resource, one tag: the key's value is
\* overwritten where the key is present, and the tag is added where it is not.
PutTag(current, tag) ==
    IF tag.Key \in KeysOf(current)
    THEN [j \in DOMAIN current |-> IF current[j].Key = tag.Key THEN tag ELSE current[j]]
    ELSE Append(current, tag)

RECURSIVE PutTags(_, _, _)
PutTags(current, tags, k) ==
    IF k > Len(tags) THEN current ELSE PutTags(PutTag(current, tags[k]), tags, k + 1)

TagRequest(api, region, resources, tags) ==
    [api |-> api, region |-> region, Resources |-> resources, Tags |-> tags]

\* The vendor's effect of one request on its tag store.
VendorApply(store, req) ==
    [id \in DOMAIN store |->
        IF id \notin Range(req.Resources) THEN store[id]
        ELSE IF req.api = "create_tags" THEN PutTags(store[id], req.Tags, 1)
        ELSE IF req.api = "delete_tags" THEN <<>>
        ELSE store[id]]

RECURSIVE VendorApplyAll(_, _, _)
VendorApplyAll(store, reqs, k) ==
    IF k > Len(reqs) THEN store
    ELSE VendorApplyAll(VendorApply(store, reqs[k]), reqs, k + 1)

\* The vendor accepts a tag request for resources that exist in its region.
VendorKnows(req) ==
    \A id \in Range(req.Resources) : id \in ModIds /\ ModRegionOf(id) = req.region

\* A reconciling modify_instance: the tags are deleted, then created.
ModifyRequestsReconcile(instance_id, region, tags) ==
    IF tags # <<>>
    THEN <<TagRequest("delete_tags", region, <<instance_id>>, <<>>),
           TagRequest("create_tags", region, <<instance_id>>, tags)>>
    ELSE <<>>

\* aws_manager.py 132-142: the requests modify_instance issues.
ModifyRequests(instance_id, region, tags) ==
    IF tags # <<>>
    THEN <<TagRequest("create_tags", region, <<instance_id>>, tags)>>
    ELSE <<>>

ModifyArgs(instance_id, region, tags) ==
    [instance_id |-> instance_id, region |-> region, tags |-> tags]

ModifyIdle ==
    /\ mTags = [id \in ModIds |-> <<>>]
    /\ mCall = None /\ mOutcome = "none" /\ mReqs = <<>>

InitModify ==
    /\ mTags \in [ModIds -> {<<>>, <<Tag("owner", "alice"), Tag("env", "dev")>>}]
    /\ mCall = None /\ mOutcome = "none" /\ mReqs = <<>>

\* aws_manager.py 125-142: the call returns; every request it issued succeeded.
ModifyInstance(instance_id, region, tags) ==
    LET reqs == ModifyRequests(instance_id, region, tags)
    IN  /\ \A k \in DOMAIN reqs : VendorKnows(reqs[k])
        /\ mTags' = VendorApplyAll(mTags, reqs, 1)
        /\ mReqs' = reqs
        /\ mCall' = Some(ModifyArgs(instance_id, region, tags))
        /\ mOutcome' = "returned"
        /\ UNCHANGED notModify

\* aws_manager.py 136-139: the vendor rejects the call's first request (an
\* unknown resource, or any other failure); the error reaches the caller.
ModifyInstanceFails(instance_id, region, tags) ==
    LET reqs == ModifyRequests(instance_id, region, tags)
    IN  /\ reqs # <<>>
        /\ mReqs' = <<reqs[1]>>
        /\ mCall' = Some(ModifyArgs(instance_id, region, tags))
        /\ mOutcome' = "raised"
        /\ UNCHANGED <<mTags, notModify>>

ModifyCalls ==
    \E instance_id \in ModIds \cup {MissingId}, region \in Regions,
       tags \in SeqsUpTo(ModPairs, MaxCallTags) :
        ModifyInstance(instance_id, region, tags)

ModifyCallsFail ==
    \E instance_id \in ModIds \cup {MissingId}, region \in Regions,
       tags \in SeqsUpTo(ModPairs, MaxCallTags) :
        ModifyInstanceFails(instance_id, region, tags)

(***************************************************************************)
(* gcp_manager.py 14-16, 89-234: the Zonal Adapter's calls on one instance *)
(* of one project and zone, issued by two callers, and the vendor's        *)
(* long-running operations.                                                *)
(*                                                                         *)
(* The vendor: a mutating request that the vendor accepts returns an       *)
(* operation, pending until the vendor resolves it.  The operation's       *)
(* effect is applied when it resolves to done; an operation that resolves  *)
(* to an error has no effect.  A set-labels (set-metadata) request carries *)
(* the fingerprint its sender read; the vendor refuses it, and fails its   *)
(* operation, when the fingerprint is not the instance's current one, and  *)
(* gives the instance a fresh fingerprint with every change.               *)
(***************************************************************************)
Callers == {"t1", "t2"}
ZProject == "my-proj"
VmName == "vm-1"
Label(k, v) == <<k, v>>
LabelArgs == {{Label("env", "prod")}, {Label("env", "dev"), Label("team", "x")}}
MetadataArgs == {<<<<"startup-script", "echo">>>>}
MachineTypeArgs ==
    {<<"n1-standard-1">>,
     <<LitZones, "europe-west1-b", LitMachineTypes, "n1-standard-1">>}

Metadata(fingerprint, items) == [fingerprint |-> fingerprint, items |-> items]
GceInstance(name, machine_type, labels, label_fingerprint, metadata) ==
    [name |-> name, machine_type |-> machine_type, labels |-> labels,
     label_fingerprint |-> label_fingerprint, metadata |-> metadata]

Call(kind, arg, token) == [kind |-> kind, arg |-> arg, token |-> token]
Operation(kind, body, status) == [kind |-> kind, body |-> body, status |-> status]

\* gcp_manager.py 139-151, 177-180: the instance resource of the insert request.
InsertBody(instance_name, machine_type, zone) ==
    [name |-> instance_name, machine_type |-> MachineTypeSent(machine_type, zone)]

\* A set-labels request that adds the given labels to the instance's own.
SetLabelsBodyMerging(instance, labels) ==
    [label_fingerprint |-> instance.label_fingerprint,
     labels |-> labels \cup {l \in instance.labels :
                                \A g \in labels : g[1] # l[1]}]

\* A set-labels request that carries whatever fingerprint the vendor holds
\* when the request is built, not the one the call's get returned.
SetLabelsBodyCurrent(instance, labels) ==
    [label_fingerprint |-> IF gInst = None THEN instance.label_fingerprint
                           ELSE gInst[1].label_fingerprint,
     labels |-> labels]

\* gcp_manager.py 203-212: the body of the set-labels request.
SetLabelsBody(instance, labels) ==
    [label_fingerprint |-> instance.label_fingerprint, labels |-> labels]

\* gcp_manager.py 220-231: instance.metadata with its item list replaced.
SetMetadataBody(instance, metadata) ==
    Metadata(instance.metadata.fingerprint,
             [k \in DOMAIN metadata |-> [key |-> metadata[k][1], value |-> metadata[k][2]]])

\* Whether the vendor can apply an operation to its instance.
Applicable(inst, op) ==
    CASE op.kind = "insert" -> inst = None
      [] op.kind = "delete" -> inst # None
      [] op.kind = "set_labels" ->
            inst # None /\ inst[1].label_fingerprint = op.body.label_fingerprint
      [] op.kind = "set_metadata" ->
            inst # None /\ inst[1].metadata.fingerprint = op.body.fingerprint

\* The vendor's instance after an operation's effect; token is the fresh fingerprint.
Effect(inst, op, token) ==
    CASE op.kind = "insert" ->
            Some(GceInstance(op.body.name, op.body.machine_type, {}, token,
                             Metadata(token, <<>>)))
      [] op.kind = "delete" -> None
      [] op.kind = "set_labels" ->
            Some([inst[1] EXCEPT !.labels = op.body.labels, !.label_fingerprint = token])
      [] op.kind = "set_metadata" ->
            Some([inst[1] EXCEPT !.metadata = Metadata(token, op.body.items)])

\* The error of a request the vendor refuses.
RequestError(inst, op) ==
    IF op.kind = "insert" THEN (IF inst # None THEN "conflict" ELSE "vendor-rejected")
    ELSE IF inst = None THEN "not-found"
    ELSE IF ~Applicable(inst, op) THEN "conflict"
    ELSE "vendor-rejected"

\* operation.result() that returns as soon as it is called.
OperationResultNoBlock(op) ==
    IF op.status = "error" THEN "raise" ELSE "return"

\* operation.result() that swallows the operation's error.
OperationResultNoRaise(op) ==
    IF op.status = "pending" THEN "block" ELSE "return"

\* gcp_manager.py 15: operation.result() blocks while the operation is
\* pending, raises the operation's error, and returns when it is done.
OperationResult(op) ==
    IF op.status = "pending" THEN "block"
    ELSE IF op.status = "error" THEN "raise"
    ELSE "return"

Free(c) == cpc[c] \in {"idle", "returned", "raised"}

ZonalIdle ==
    /\ gInst = None /\ gFresh = 1
    /\ gOp = [c \in Callers |-> None]
    /\ cpc = [c \in Callers |-> "none"]
    /\ cCall = [c \in Callers |-> None]
    /\ cLocal = [c \in Callers |-> None]
    /\ cResult = [c \in Callers |-> None]
    /\ cErr = [c \in Callers |-> None]
    /\ cReqs = [c \in Callers |-> <<>>]
    /\ cClean = [c \in Callers |-> TRUE]

InitZonal ==
    /\ gInst \in {None} \cup
           {Some(GceInstance(VmName, <<"n1-standard-1">>, labels, 0, Metadata(0, <<>>))) :
               labels \in {{}, {Label("env", "dev"), Label("team", "x")}}}
    /\ gFresh = 1
    /\ gOp = [c \in Callers |-> None]
    /\ cpc = [c \in Callers |-> "idle"]
    /\ cCall = [c \in Callers |-> None]
    /\ cLocal = [c \in Callers |-> None]
    /\ cResult = [c \in Callers |-> None]
    /\ cErr = [c \in Callers |-> None]
    /\ cReqs = [c \in Callers |-> <<>>]
    /\ cClean = [c \in Callers |-> TRUE]

\* A call of caller c begins and issues its first request, which the vendor
\* answers with `local` (a get) or with the operation `op`.
Begin(c, call, pc, api, local, op, result) ==
    /\ Free(c)
    /\ cCall' = [cCall EXCEPT ![c] = Some(call)]
    /\ cpc' = [cpc EXCEPT ![c] = pc]
    /\ cReqs' = [cReqs EXCEPT ![c] = <<api>>]
    /\ cLocal' = [cLocal EXCEPT ![c] = local]
    /\ gOp' = [gOp EXCEPT ![c] = op]
    /\ cResult' = [cResult EXCEPT ![c] = result]
    /\ cErr' = [cErr EXCEPT ![c] = None]
    /\ cClean' = [cClean EXCEPT ![c] = TRUE]

\* A call of caller c begins and its first request fails.
BeginFails(c, call, api, err) ==
    /\ Free(c)
    /\ cCall' = [cCall EXCEPT ![c] = Some(call)]
    /\ cpc' = [cpc EXCEPT ![c] = "raised"]
    /\ cReqs' = [cReqs EXCEPT ![c] = <<api>>]
    /\ cLocal' = [cLocal EXCEPT ![c] = None]
    /\ gOp' = [gOp EXCEPT ![c] = None]
    /\ cResult' = [cResult EXCEPT ![c] = None]
    /\ cErr' = [cErr EXCEPT ![c] = Some(err)]
    /\ cClean' = [cClean EXCEPT ![c] = TRUE]
    /\ UNCHANGED <<gInst, gFresh, notZonal>>

\* gcp_manager.py 111-182: create_instance builds the instance resource and
\* issues the insert request; the vendor accepts it.
CreateInsert(c) ==
    \E machine_type \in MachineTypeArgs :
        LET op == Operation("insert", InsertBody(VmName, machine_type, DefaultZone),
                            "pending")
        IN  /\ gFresh < MaxFresh
            /\ gInst = None
            /\ Begin(c, Call("create", machine_type, gFresh), "wait", "insert",
                     None, Some(op), None)
            /\ gFresh' = gFresh + 1
            /\ UNCHANGED <<gInst, notZonal>>

\* gcp_manager.py 182: the insert request raises.
CreateInsertFails(c) ==
    \E machine_type \in MachineTypeArgs :
        BeginFails(c, Call("create", machine_type, 0), "insert",
                   IF gInst # None THEN "conflict" ELSE "vendor-rejected")

\* gcp_manager.py 184, 192, 215, 234: wait_for_extended_operation returns.
Wait(c) ==
    /\ cpc[c] = "wait"
    /\ OperationResult(gOp[c][1]) = "return"
    /\ cpc' = [cpc EXCEPT ![c] = IF cCall[c][1].kind = "create" THEN "create_get"
                                 ELSE "returned"]
    /\ UNCHANGED <<gInst, gFresh, gOp, cCall, cLocal, cResult, cErr, cReqs, cClean,
                   notZonal>>

\* gcp_manager.py 15: operation.result() raises the operation's error.
WaitRaises(c) ==
    /\ cpc[c] = "wait"
    /\ OperationResult(gOp[c][1]) = "raise"
    /\ cpc' = [cpc EXCEPT ![c] = "raised"]
    /\ cErr' = [cErr EXCEPT ![c] = Some("operation-failed")]
    /\ UNCHANGED <<gInst, gFresh, gOp, cCall, cLocal, cResult, cReqs, cClean, notZonal>>

\* gcp_manager.py 186: the created instance is fetched and returned.
CreateGet(c) ==
    /\ cpc[c] = "create_get"
    /\ gInst # None
    /\ cpc' = [cpc EXCEPT ![c] = "returned"]
    /\ cResult' = [cResult EXCEPT ![c] = Some(gInst[1])]
    /\ cReqs' = [cReqs EXCEPT ![c] = Append(@, "get")]
    /\ UNCHANGED <<gInst, gFresh, gOp, cCall, cLocal, cErr, cClean, notZonal>>

\* gcp_manager.py 186: the get request raises.
CreateGetFails(c) ==
    /\ cpc[c] = "create_get"
    /\ cpc' = [cpc EXCEPT ![c] = "raised"]
    /\ cErr' = [cErr EXCEPT ![c] = Some(IF gInst = None THEN "not-found"
                                        ELSE "vendor-rejected")]
    /\ cReqs' = [cReqs EXCEPT ![c] = Append(@, "get")]
    /\ UNCHANGED <<gInst, gFresh, gOp, cCall, cLocal, cResult, cClean, notZonal>>

\* gcp_manager.py 188-191: delete_instance issues the delete request.
DeleteRequest(c) ==
    /\ gInst # None
    /\ Begin(c, Call("delete", <<>>, 0), "wait", "delete", None,
             Some(Operation("delete", <<>>, "pending")), None)
    /\ UNCHANGED <<gInst, gFresh, notZonal>>

\* gcp_manager.py 191: the delete request raises.
DeleteRequestFails(c) ==
    BeginFails(c, Call("delete", <<>>, 0), "delete",
               IF gInst = None THEN "not-found" ELSE "vendor-rejected")

\* gcp_manager.py 195-197: get_instance_details.
GetDetails(c) ==
    /\ gInst # None
    /\ Begin(c, Call("get", <<>>, 0), "returned", "get", None, None, Some(gInst[1]))
    /\ UNCHANGED <<gInst, gFresh, notZonal>>

GetDetailsFails(c) ==
    BeginFails(c, Call("get", <<>>, 0), "get",
               IF gInst = None THEN "not-found" ELSE "vendor-rejected")

\* gcp_manager.py 199-203: set_instance_labels reads the instance.
LabelsGet(c) ==
    \E labels \in LabelArgs :
        /\ gFresh < MaxFresh
        /\ gInst # None
        /\ Begin(c, Call("set_labels", labels, gFresh), "labels_set", "get",
                 Some(gInst[1]), None, None)
        /\ gFresh' = gFresh + 1
        /\ UNCHANGED <<gInst, notZonal>>

\* gcp_manager.py 202: the get request raises.
LabelsGetFails(c) ==
    \E labels \in LabelArgs :
        BeginFails(c, Call("set_labels", labels, 0), "get",
                   IF gInst = None THEN "not-found" ELSE "vendor-rejected")

\* The request a call issues after its get, which the vendor accepts.
SecondRequest(c, api, op) ==
    /\ Applicable(gInst, op)
    /\ gOp' = [gOp EXCEPT ![c] = Some(op)]
    /\ cpc' = [cpc EXCEPT ![c] = "wait"]
    /\ cReqs' = [cReqs EXCEPT ![c] = Append(@, api)]
    /\ UNCHANGED <<gInst, gFresh, cCall, cLocal, cResult, cErr, cClean, notZonal>>

\* The request a call issues after its get, which raises.
SecondRequestFails(c, api, op) ==
    /\ cpc' = [cpc EXCEPT ![c] = "raised"]
    /\ cErr' = [cErr EXCEPT ![c] = Some(RequestError(gInst, op))]
    /\ cReqs' = [cReqs EXCEPT ![c] = Append(@, api)]
    /\ UNCHANGED <<gInst, gFresh, gOp, cCall, cLocal, cResult, cClean, notZonal>>

\* gcp_manager.py 205-214: the set-labels request, with the fingerprint read.
LabelsSet(c) ==
    /\ cpc[c] = "labels_set"
    /\ SecondRequest(c, "set_labels",
           Operation("set_labels", SetLabelsBody(cLocal[c][1], cCall[c][1].arg),
                     "pending"))

\* gcp_manager.py 214: the set-labels request raises.
LabelsSetFails(c) ==
    /\ cpc[c] = "labels_set"
    /\ SecondRequestFails(c, "set_labels",
           Operation("set_labels", SetLabelsBody(cLocal[c][1], cCall[c][1].arg),
                     "pending"))

\* gcp_manager.py 217-220: set_instance_metadata reads the instance.
MetadataGet(c) ==
    \E metadata \in MetadataArgs :
        /\ gFresh < MaxFresh
        /\ gInst # None
        /\ Begin(c, Call("set_metadata", metadata, gFresh), "metadata_set", "get",
                 Some(gInst[1]), None, None)
        /\ gFresh' = gFresh + 1
        /\ UNCHANGED <<gInst, notZonal>>

\* gcp_manager.py 219: the get request raises.
MetadataGetFails(c) ==
    \E metadata \in MetadataArgs :
        BeginFails(c, Call("set_metadata", metadata, 0), "get",
                   IF gInst = None THEN "not-found" ELSE "vendor-rejected")

\* gcp_manager.py 221-233: the set-metadata request.
MetadataSet(c) ==
    /\ cpc[c] = "metadata_set"
    /\ SecondRequest(c, "set_metadata",
           Operation("set_metadata", SetMetadataBody(cLocal[c][1], cCall[c][1].arg),
                     "pending"))

\* gcp_manager.py 233: the set-metadata request raises.
MetadataSetFails(c) ==
    /\ cpc[c] = "metadata_set"
    /\ SecondRequestFails(c, "set_metadata",
           Operation("set_metadata", SetMetadataBody(cLocal[c][1], cCall[c][1].arg),
                     "pending"))

\* The vendor resolves caller c's operation to done and applies its effect.
OpDone(c) ==
    /\ gOp[c] # None
    /\ gOp[c][1].status = "pending"
    /\ Applicable(gInst, gOp[c][1])
    /\ gInst' = Effect(gInst, gOp[c][1], cCall[c][1].token)
    /\ gOp' = [gOp EXCEPT ![c] = Some([@[1] EXCEPT !.status = "done"])]
    /\ cClean' = [d \in Callers |-> d = c /\ cClean[d]]
    /\ UNCHANGED <<gFresh, cpc, cCall, cLocal, cResult, cErr, cReqs, notZonal>>

\* The vendor resolves caller c's operation to an error; it has no effect.
OpError(c) ==
    /\ gOp[c] # None
    /\ gOp[c][1].status = "pending"
    /\ gOp' = [gOp EXCEPT ![c] = Some([@[1] EXCEPT !.status = "error"])]
    /\ UNCHANGED <<gInst, gFresh, cpc, cCall, cLocal, cResult, cErr, cReqs, cClean,
                   notZonal>>

(***************************************************************************)
(* gcp_manager.py 255-269: delete_bucket and force_delete_bucket on one    *)
(* bucket, and the vendor's object store.  The store lists a bucket's      *)
(* objects in name order, deletes an object it holds, and deletes a bucket *)
(* only when the bucket is empty.  The adapter is the bucket's only        *)
(* writer.                                                                 *)
(***************************************************************************)
ObjectSeq == <<"a.txt", "b.txt", "c.txt", "d.txt", "e.txt">>
ObjectNames == {ObjectSeq[k] : k \in 1..MaxObjects}

\* bucket.list_blobs(): the bucket's objects in name order.
ListBlobs(objects) ==
    LET Held(j) == ObjectSeq[j] \in objects
        idx == SelectSeq([j \in 1..Len(ObjectSeq) |-> j], Held)
    IN  [j \in 1..Len(idx) |-> ObjectSeq[idx[j]]]

StorageRequest(api, object) == [api |-> api, object |-> object]

\* A loop that stops one blob early.
LoopDoneEarly(blobs, i) == i >= Len(blobs)

\* gcp_manager.py 266-269: the loop over blobs is over.
LoopDone(blobs, i) == i > Len(blobs)

BucketIdle ==
    /\ bObjects = None /\ bCall = "none" /\ bStart = None /\ bpc = "idle"
    /\ bBlobs = <<>> /\ bi = 1 /\ bErr = None /\ bReqs = <<>>

InitBucket ==
    /\ bObjects \in {None} \cup {Some(objects) : objects \in SUBSET ObjectNames}
    /\ bCall = "none" /\ bStart = None /\ bpc = "idle"
    /\ bBlobs = <<>> /\ bi = 1 /\ bErr = None /\ bReqs = <<>>

BucketFree == bpc \in {"idle", "returned", "raised"}

\* A bucket call ends by raising the vendor's error.
BucketRaises(req, err) ==
    /\ bpc' = "raised"
    /\ bErr' = Some(err)
    /\ bReqs' = Append(bReqs, req)

\* gcp_manager.py 255-257: delete_bucket on an empty bucket.
DeleteBucket ==
    /\ BucketFree
    /\ bObjects = Some({})
    /\ bObjects' = None
    /\ bCall' = "delete" /\ bStart' = bObjects /\ bpc' = "returned"
    /\ bBlobs' = <<>> /\ bi' = 1 /\ bErr' = None
    /\ bReqs' = <<StorageRequest("delete_bucket", "")>>
    /\ UNCHANGED notBucket

\* gcp_manager.py 257: bucket.delete() raises: the bucket is missing or not
\* empty, or the request fails otherwise.
DeleteBucketFails ==
    /\ BucketFree
    /\ bCall' = "delete" /\ bStart' = bObjects /\ bpc' = "raised"
    /\ bBlobs' = <<>> /\ bi' = 1
    /\ bErr' = Some(IF bObjects = None THEN "not-found"
                    ELSE IF bObjects # Some({}) THEN "conflict"
                    ELSE "vendor-rejected")
    /\ bReqs' = <<StorageRequest("delete_bucket", "")>>
    /\ UNCHANGED <<bObjects, notBucket>>

\* gcp_manager.py 259-266: force_delete_bucket lists the bucket's blobs.
ForceList ==
    /\ BucketFree
    /\ bObjects # None
    /\ bCall' = "force" /\ bStart' = bObjects /\ bpc' = "loop"
    /\ bBlobs' = ListBlobs(bObjects[1]) /\ bi' = 1 /\ bErr' = None
    /\ bReqs' = <<StorageRequest("list_blobs", "")>>
    /\ UNCHANGED <<bObjects, notBucket>>

\* gcp_manager.py 265-266: the listing raises.
ForceListFails ==
    /\ BucketFree
    /\ bCall' = "force" /\ bStart' = bObjects /\ bpc' = "raised"
    /\ bBlobs' = <<>> /\ bi' = 1
    /\ bErr' = Some(IF bObjects = None THEN "not-found" ELSE "vendor-rejected")
    /\ bReqs' = <<StorageRequest("list_blobs", "")>>
    /\ UNCHANGED <<bObjects, notBucket>>

\* gcp_manager.py 266-267: blob.delete() for the next blob of the listing.
ForceDeleteBlob ==
    /\ bpc = "loop" /\ ~LoopDone(bBlobs, bi)
    /\ bObjects # None /\ bBlobs[bi] \in bObjects[1]
    /\ bObjects' = Some(bObjects[1] \ {bBlobs[bi]})
    /\ bReqs' = Append(bReqs, StorageRequest("delete_blob", bBlobs[bi]))
    /\ bi' = bi + 1
    /\ UNCHANGED <<bCall, bStart, bpc, bBlobs, bErr, notBucket>>

\* gcp_manager.py 267: blob.delete() raises.
ForceDeleteBlobFails ==
    /\ bpc = "loop" /\ ~LoopDone(bBlobs, bi)
    /\ BucketRaises(StorageRequest("delete_blob", bBlobs[bi]), "vendor-rejected")
    /\ UNCHANGED <<bObjects, bCall, bStart, bBlobs, bi, notBucket>>

\* gcp_manager.py 269: bucket.delete() after the loop, on an empty bucket.
ForceDeleteBucket ==
    /\ bpc = "loop" /\ LoopDone(bBlobs, bi)
    /\ bObjects = Some({})
    /\ bObjects' = None
    /\ bpc' = "returned"
    /\ bReqs' = Append(bReqs, StorageRequest("delete_bucket", ""))
    /\ UNCHANGED <<bCall, bStart, bBlobs, bi, bErr, notBucket>>

\* gcp_manager.py 269: bucket.delete() after the loop raises.
ForceDeleteBucketFails ==
    /\ bpc = "loop" /\ LoopDone(bBlobs, bi)
    /\ BucketRaises(StorageRequest("delete_bucket", ""),
                    IF bObjects = None THEN "not-found"
                    ELSE IF bObjects # Some({}) THEN "conflict"
                    ELSE "vendor-rejected")
    /\ UNCHANGED <<bObjects, bCall, bStart, bBlobs, bi, notBucket>>

(***************************************************************************)
(* aws_manager.py 41-60: get_amis.  CreationDate is the vendor's           *)
(* fixed-width timestamp string; Python orders strings character by        *)
(* character.                                                              *)
(***************************************************************************)
ImageIdSeq == <<"ami-1", "ami-2", "ami-3", "ami-4">>
ImageIds == {ImageIdSeq[k] : k \in 1..MaxImages}
CreationDates == {<<"0", "7">>, <<"1", "0">>, <<"2", "1">>}
Image(id, date) == [ImageId |-> id, CreationDate |-> date]
NamedImage(id, date, name) == [ImageId |-> id, CreationDate |-> date, Name |-> name]

\* The records the vendor may report: the first image id comes without a Name.
ImageRecords ==
    {IF id = ImageIdSeq[1] THEN Image(id, d)
     ELSE NamedImage(id, d, <<"amzn2-ami-hvm", id>>) :
        id \in ImageIds, d \in CreationDates}

\* The vendor's image lists: distinct image ids, any order, any dates.
ImageLists ==
    {imgs \in SeqsUpTo(ImageRecords, MaxImages) :
        \A j, k \in DOMAIN imgs : imgs[j].ImageId = imgs[k].ImageId => j = k}

CharCode(c) == 48 + (CHOOSE d \in 0..9 : Digits[d + 1] = c)

\* Python's a < b on strings.
RECURSIVE StrLess(_, _)
StrLess(a, b) ==
    IF b = <<>> THEN FALSE
    ELSE IF a = <<>> THEN TRUE
    ELSE IF a[1] = b[1] THEN StrLess(Tail(a), Tail(b))
    ELSE CharCode(a[1]) < CharCode(b[1])

\* One image inserted into a list sorted by CreationDate descending, after
\* the images whose CreationDate is not less (the sort is stable).
RECURSIVE InsertDesc(_, _)
InsertDesc(sorted, img) ==
    IF sorted = <<>> THEN <<img>>
    ELSE IF StrLess(Head(sorted).CreationDate, img.CreationDate)
         THEN <<img>> \o sorted
         ELSE <<Head(sorted)>> \o InsertDesc(Tail(sorted), img)

RECURSIVE InsertAsc(_, _)
InsertAsc(sorted, img) ==
    IF sorted = <<>> THEN <<img>>
    ELSE IF StrLess(img.CreationDate, Head(sorted).CreationDate)
         THEN <<img>> \o sorted
         ELSE <<Head(sorted)>> \o InsertAsc(Tail(sorted), img)

RECURSIVE SortAsc(_, _, _)
SortAsc(images, k, acc) ==
    IF k > Len(images) THEN acc ELSE SortAsc(images, k + 1, InsertAsc(acc, images[k]))

\* sorted(images, key=CreationDate) without reverse=True.
SortedByCreationDateAsc(images) == SortAsc(images, 1, <<>>)

RECURSIVE SortDesc(_, _, _)
SortDesc(images, k, acc) ==
    IF k > Len(images) THEN acc ELSE SortDesc(images, k + 1, InsertDesc(acc, images[k]))

\* aws_manager.py 57: sorted(response['Images'], key=CreationDate, reverse=True).
SortedByCreationDate(images) == SortDesc(images, 1, <<>>)

\* aws_manager.py 59: {'ImageId': .., 'Name': img.get('Name', img['ImageId'])}.
Simplified(img) ==
    [ImageId |-> img.ImageId,
     Name |-> IF "Name" \in DOMAIN img THEN img.Name ELSE img.ImageId]

AmiList(images) ==
    LET sorted == SortedByCreationDate(images)
    IN  [k \in DOMAIN sorted |-> Simplified(sorted[k])]

ImagesIdle == iImages = <<>> /\ iResult = None /\ iErr = None

InitImages ==
    /\ iImages \in ImageLists
    /\ iResult = None /\ iErr = None

\* aws_manager.py 41-60: get_amis returns.
GetAmis ==
    /\ iResult' = Some(AmiList(iImages))
    /\ iErr' = None
    /\ UNCHANGED <<iImages, notImages>>

\* aws_manager.py 50-55: describe_images raises.
GetAmisFails ==
    /\ \E e \in VendorErrors : iErr' = Some(e)
    /\ iResult' = None
    /\ UNCHANGED <<iImages, notImages>>

(***************************************************************************)
(* gcp_manager.py 19-68: GCPManager.__init__ and _ensure_compute_api_enabled,*)
(* and the client each method of the constructed adapter sends its         *)
(* requests with.  The service-usage vendor answers a get with the         *)
(* service's state or an error, and an enable with a long-running          *)
(* operation, which the vendor resolves after the request has returned.    *)
(***************************************************************************)
CredentialFiles == {"sa.json"}
ServiceAccount(file) == <<"service_account", file>>
DefaultCredentials == <<"default">>

\* gcp_manager.py 27-32: the credentials the constructor builds.
ConstructorCredentials(file) ==
    IF file = None THEN DefaultCredentials ELSE ServiceAccount(file[1])

\* compute_v1.InstancesClient() without a credentials argument takes the
\* application default credentials.
InstancesClientCredentials == DefaultCredentials

ServiceStates == {"ENABLED", "DISABLED"}

\* The methods of the adapter and the handle each sends its requests with:
\* self.client (75), a new InstancesClient() (111, 189, 196, 200, 218),
\* self.storage_client (242, 251, 256, 263).
Methods ==
    {"list_compute_instances", "create_instance", "delete_instance",
     "get_instance_details", "set_instance_labels", "set_instance_metadata",
     "list_buckets", "create_bucket", "delete_bucket", "force_delete_bucket"}
BucketMethods == {"list_buckets", "create_bucket", "delete_bucket", "force_delete_bucket"}

MethodCredentials(method) ==
    IF method = "list_compute_instances" THEN sClient[1]
    ELSE IF method \in BucketMethods THEN sStorage[1]
    ELSE InstancesClientCredentials

\* A vendor request as the vendor saw it: the credentials it came with and
\* the answer it got ("error" when it raised).
ServiceRequest(api, project, cred, answer) ==
    [api |-> api, project |-> project, cred |-> cred, answer |-> answer]

GuardIdle ==
    /\ sCredFile = None /\ sProjects = <<>>
    /\ sService = [p \in Projects |-> "ENABLED"] /\ sEnabling = {}
    /\ spc = "none" /\ si = 1
    /\ sServiceUsage = DefaultCredentials
    /\ sClient = None /\ sStorage = None
    /\ sErr = None /\ sReqs = <<>> /\ sMethod = None

\* gcp_manager.py 19-35: the constructor up to the guard loop.
InitGuard ==
    /\ sCredFile \in {None} \cup {Some(f) : f \in CredentialFiles}
    /\ sProjects \in {GCPManagerProjects(ps) : ps \in SeqsUpTo(Projects, MaxProjects)}
    /\ sService \in [Projects -> ServiceStates]
    /\ sEnabling = {}
    /\ spc = "check" /\ si = 1
    /\ sServiceUsage = ConstructorCredentials(sCredFile)
    /\ sClient = None /\ sStorage = None
    /\ sErr = None /\ sReqs = <<>> /\ sMethod = None

GuardLog(api, answer) ==
    sReqs' = Append(sReqs, ServiceRequest(api, sProjects[si], sServiceUsage, answer))

\* gcp_manager.py 54-59: the get answers ENABLED; the guard is done with the project.
EnsureCheckEnabled ==
    /\ spc = "check" /\ si <= Len(sProjects)
    /\ sService[sProjects[si]] = "ENABLED"
    /\ GuardLog("services.get", "ENABLED")
    /\ si' = si + 1
    /\ UNCHANGED <<sCredFile, sProjects, sService, sEnabling, spc, sServiceUsage,
                   sClient, sStorage, sErr, sMethod, notGuard>>

\* gcp_manager.py 54-61: the get answers another state.
EnsureCheckNotEnabled ==
    /\ spc = "check" /\ si <= Len(sProjects)
    /\ sService[sProjects[si]] # "ENABLED"
    /\ GuardLog("services.get", sService[sProjects[si]])
    /\ spc' = "enable"
    /\ UNCHANGED <<sCredFile, sProjects, sService, sEnabling, si, sServiceUsage,
                   sClient, sStorage, sErr, sMethod, notGuard>>

\* gcp_manager.py 56, 64-66: the get raises; the handler takes over.
EnsureCheckFails ==
    /\ spc = "check" /\ si <= Len(sProjects)
    /\ GuardLog("services.get", "error")
    /\ spc' = "handler"
    /\ UNCHANGED <<sCredFile, sProjects, sService, sEnabling, si, sServiceUsage,
                   sClient, sStorage, sErr, sMethod, notGuard>>

\* gcp_manager.py 62-63: the enable inside the try block is accepted.
EnsureEnable ==
    /\ spc = "enable"
    /\ GuardLog("services.enable", "accepted")
    /\ sEnabling' = sEnabling \cup {sProjects[si]}
    /\ spc' = "check" /\ si' = si + 1
    /\ UNCHANGED <<sCredFile, sProjects, sService, sServiceUsage,
                   sClient, sStorage, sErr, sMethod, notGuard>>

\* gcp_manager.py 62, 64-66: the enable inside the try block raises; the
\* except clause of the same try catches it.
EnsureEnableFails ==
    /\ spc = "enable"
    /\ GuardLog("services.enable", "error")
    /\ spc' = "handler"
    /\ UNCHANGED <<sCredFile, sProjects, sService, sEnabling, si, sServiceUsage,
                   sClient, sStorage, sErr, sMethod, notGuard>>

\* gcp_manager.py 67-68: the enable of the handler is accepted.
HandlerEnable ==
    /\ spc = "handler"
    /\ GuardLog("services.enable", "accepted")
    /\ sEnabling' = sEnabling \cup {sProjects[si]}
    /\ spc' = "check" /\ si' = si + 1
    /\ UNCHANGED <<sCredFile, sProjects, sService, sServiceUsage,
                   sClient, sStorage, sErr, sMethod, notGuard>>

\* gcp_manager.py 67, 39: the enable of the handler raises, out of the
\* constructor.
HandlerEnableFails ==
    /\ spc = "handler"
    /\ GuardLog("services.enable", "error")
    /\ spc' = "raised"
    /\ \E e \in GcpErrors : sErr' = Some(e)
    /\ UNCHANGED <<sCredFile, sProjects, sService, sEnabling, si, sServiceUsage,
                   sClient, sStorage, sMethod, notGuard>>

\* gcp_manager.py 38, 41-42: the loop is over; the constructor builds its
\* two clients and returns.
Constructed ==
    /\ spc = "check" /\ si > Len(sProjects)
    /\ sClient' = Some(ConstructorCredentials(sCredFile))
    /\ sStorage' = Some(ConstructorCredentials(sCredFile))
    /\ spc' = "constructed"
    /\ UNCHANGED <<sCredFile, sProjects, sService, sEnabling, si, sServiceUsage,
                   sErr, sReqs, sMethod, notGuard>>

\* The vendor: an enable operation resolves, and the service is enabled.
EnableOperationDone ==
    /\ \E p \in sEnabling :
          /\ sService' = [sService EXCEPT ![p] = "ENABLED"]
          /\ sEnabling' = sEnabling \ {p}
    /\ UNCHANGED <<sCredFile, sProjects, spc, si, sServiceUsage,
                   sClient, sStorage, sErr, sReqs, sMethod, notGuard>>

\* The vendor: an enable operation resolves to an error.
EnableOperationError ==
    /\ \E p \in sEnabling : sEnabling' = sEnabling \ {p}
    /\ UNCHANGED <<sCredFile, sProjects, sService, spc, si, sServiceUsage,
                   sClient, sStorage, sErr, sReqs, sMethod, notGuard>>

\* gcp_manager.py 70-269: a method of the constructed adapter issues a
\* vendor request.
MethodRequest ==
    /\ spc = "constructed"
    /\ \E method \in Methods, answer \in {"ok", "error"} :
          sMethod' = Some(ServiceRequest(method, ZProject, MethodCredentials(method), answer))
    /\ UNCHANGED <<sCredFile, sProjects, sService, sEnabling, spc, si, sServiceUsage,
                   sClient, sStorage, sErr, sReqs, notGuard>>

(***************************************************************************)
(* aws_manager.py 62-100: AWSManager.create_instance in one region.  The   *)
(* vendor's run_instances launches between MinCount and MaxCount instances *)
(* or none at all, and answers with the instances launched; its            *)
(* create_tags puts the tags on every resource named.                      *)
(***************************************************************************)
RunIdSeq == <<"i-0a01", "i-0a02", "i-0a03", "i-0a04", "i-0a05">>
NameArgs == {"", "web-1"}
KeyNameArgs == {None, Some("my-key")}
CreateRegion == "us-east-1"

\* Run parameters that ask for at least one instance and at most count.
RunParamsAtLeastOne(image_id, instance_type, key_name, count) ==
    [api |-> "run_instances", region |-> CreateRegion,
     ImageId |-> image_id, InstanceType |-> instance_type,
     MinCount |-> 1, MaxCount |-> count,
     KeyName |-> key_name]

\* aws_manager.py 74-87: params; KeyName is the one optional parameter kept,
\* None where the code leaves the key out.
RunParams(image_id, instance_type, key_name, count) ==
    [api |-> "run_instances", region |-> CreateRegion,
     ImageId |-> image_id, InstanceType |-> instance_type,
     MinCount |-> count, MaxCount |-> count,
     KeyName |-> key_name]

\* The vendor's answer to a run request that launches n instances: the next
\* n ids it has not used.
RunResponse(store, n) ==
    [Instances |-> [k \in 1..n |->
        [InstanceId |-> RunIdSeq[Cardinality(DOMAIN store) + k]]]]

\* aws_manager.py 91: instance_ids.
InstanceIdsOf(response) ==
    [k \in DOMAIN response.Instances |-> response.Instances[k].InstanceId]

\* The vendor's store with the launched instances, untagged.
Launched(store, ids) ==
    [id \in DOMAIN store \cup Range(ids) |->
        IF id \in DOMAIN store THEN store[id] ELSE <<>>]

\* aws_manager.py 94-98: the Name-tag request.
NameTagRequest(instance_ids, name) ==
    TagRequest("create_tags", CreateRegion, instance_ids, <<Tag("Name", name)>>)

CreateIdle ==
    /\ rStore = <<>> /\ rpc = "none" /\ rName = "" /\ rCount = 1
    /\ rBefore = {} /\ rIds = <<>> /\ rResult = None /\ rErr = None /\ rReqs = <<>>

InitCreate ==
    /\ rStore = <<>> /\ rpc = "idle" /\ rName = "" /\ rCount = 1
    /\ rBefore = {} /\ rIds = <<>> /\ rResult = None /\ rErr = None /\ rReqs = <<>>

CreateFree == rpc \in {"idle", "returned", "raised"}

\* aws_manager.py 74-100: the run request is accepted; without a name the
\* call returns the ids at once.
CreateRun ==
    /\ CreateFree
    /\ \E name \in NameArgs, count \in 1..MaxCount, key_name \in KeyNameArgs :
          LET params == RunParams("ami-1", "t2.micro", key_name, count)
          IN  \E n \in params.MinCount..params.MaxCount :
                 LET response == RunResponse(rStore, n)
                     instance_ids == InstanceIdsOf(response)
                 IN  /\ Cardinality(DOMAIN rStore) + n <= MaxCreated
                     /\ rName' = name /\ rCount' = count
                     /\ rBefore' = DOMAIN rStore
                     /\ rReqs' = <<params>>
                     /\ rStore' = Launched(rStore, instance_ids)
                     /\ rIds' = instance_ids
                     /\ rErr' = None
                     /\ rpc' = IF name # "" THEN "tag" ELSE "returned"
                     /\ rResult' = IF name # "" THEN None ELSE Some(instance_ids)
    /\ UNCHANGED notCreate

\* aws_manager.py 89: the run request raises; nothing is launched.
CreateRunFails ==
    /\ CreateFree
    /\ \E name \in NameArgs, count \in 1..MaxCount, key_name \in KeyNameArgs :
          /\ rName' = name /\ rCount' = count
          /\ rReqs' = <<RunParams("ami-1", "t2.micro", key_name, count)>>
    /\ rBefore' = DOMAIN rStore
    /\ rIds' = <<>> /\ rResult' = None
    /\ \E e \in VendorErrors : rErr' = Some(e)
    /\ rpc' = "raised"
    /\ UNCHANGED <<rStore, notCreate>>

\* aws_manager.py 94-100: the Name tag is put on the instances and the ids
\* are returned.
CreateTag ==
    /\ rpc = "tag"
    /\ LET req == NameTagRequest(rIds, rName)
       IN  /\ rReqs' = Append(rReqs, req)
           /\ rStore' = VendorApply(rStore, req)
    /\ rResult' = Some(rIds)
    /\ rpc' = "returned"
    /\ UNCHANGED <<rName, rCount, rBefore, rIds, rErr, notCreate>>

\* A create_instance that terminates what it launched when the tag request
\* raises.
CreateTagFailsRollsBack ==
    /\ rpc = "tag"
    /\ rReqs' = rReqs \o <<NameTagRequest(rIds, rName),
                           [api |-> "terminate_instances", region |-> CreateRegion,
                            InstanceIds |-> rIds]>>
    /\ rStore' = [id \in DOMAIN rStore \ Range(rIds) |-> rStore[id]]
    /\ \E e \in VendorErrors : rErr' = Some(e)
    /\ rpc' = "raised"
    /\ UNCHANGED <<rName, rCount, rBefore, rIds, rResult, notCreate>>

\* aws_manager.py 95-98: the tag request raises, out of create_instance.
CreateTagFails ==
    /\ rpc = "tag"
    /\ rReqs' = Append(rReqs, NameTagRequest(rIds, rName))
    /\ \E e \in VendorErrors : rErr' = Some(e)
    /\ rpc' = "raised"
    /\ UNCHANGED <<rStore, rName, rCount, rBefore, rIds, rResult, notCreate>>

(***************************************************************************)
(* The specifications.                                                     *)
(***************************************************************************)
NameInit == InitName /\ ListIdle /\ ZListIdle /\ QualifyIdle /\ ModifyIdle /\ ZonalIdle
    /\ BucketIdle /\ ImagesIdle /\ GuardIdle /\ CreateIdle
NextName == Normalize
SpecName == NameInit /\ [][NextName]_vars

ListInit == InitList /\ NameIdle /\ ZListIdle /\ QualifyIdle /\ ModifyIdle /\ ZonalIdle
    /\ BucketIdle /\ ImagesIdle /\ GuardIdle /\ CreateIdle
NextList == ListStart \/ ListRegion \/ ListRegionFails \/ ListReturn
SpecList == ListInit /\ [][NextList]_vars

ZListInit == InitZList /\ NameIdle /\ ListIdle /\ QualifyIdle /\ ModifyIdle /\ ZonalIdle
    /\ BucketIdle /\ ImagesIdle /\ GuardIdle /\ CreateIdle
NextZList == ZListStart \/ ZListScope \/ ZListScopeFails \/ ZListReturn
SpecZList == ZListInit /\ [][NextZList]_vars

QualifyInit == InitQualify /\ NameIdle /\ ListIdle /\ ZListIdle /\ ModifyIdle /\ ZonalIdle
    /\ BucketIdle /\ ImagesIdle /\ GuardIdle /\ CreateIdle
NextQualify == Qualify
SpecQualify == QualifyInit /\ [][NextQualify]_vars

ModifyInit == InitModify /\ NameIdle /\ ListIdle /\ ZListIdle /\ QualifyIdle /\ ZonalIdle
    /\ BucketIdle /\ ImagesIdle /\ GuardIdle /\ CreateIdle
NextModify == ModifyCalls \/ ModifyCallsFail
SpecModify == ModifyInit /\ [][NextModify]_vars

ZonalInit ==
    InitZonal /\ NameIdle /\ ListIdle /\ ZListIdle /\ QualifyIdle /\ ModifyIdle
    /\ BucketIdle /\ ImagesIdle /\ GuardIdle /\ CreateIdle
NextZonal ==
    \E c \in Callers :
        \/ CreateInsert(c) \/ CreateInsertFails(c) \/ CreateGet(c) \/ CreateGetFails(c)
        \/ DeleteRequest(c) \/ DeleteRequestFails(c)
        \/ GetDetails(c) \/ GetDetailsFails(c)
        \/ LabelsGet(c) \/ LabelsGetFails(c) \/ LabelsSet(c) \/ LabelsSetFails(c)
        \/ MetadataGet(c) \/ MetadataGetFails(c) \/ MetadataSet(c) \/ MetadataSetFails(c)
        \/ Wait(c) \/ WaitRaises(c)
        \/ OpDone(c) \/ OpError(c)
SpecZonal == ZonalInit /\ [][NextZonal]_vars

BucketInit ==
    InitBucket /\ NameIdle /\ ListIdle /\ ZListIdle /\ QualifyIdle /\ ModifyIdle
    /\ ZonalIdle /\ ImagesIdle /\ GuardIdle /\ CreateIdle
NextBucket ==
    \/ DeleteBucket \/ DeleteBucketFails
    \/ ForceList \/ ForceListFails
    \/ ForceDeleteBlob \/ ForceDeleteBlobFails
    \/ ForceDeleteBucket \/ ForceDeleteBucketFails
SpecBucket == BucketInit /\ [][NextBucket]_vars

ImagesInit ==
    InitImages /\ NameIdle /\ ListIdle /\ ZListIdle /\ QualifyIdle /\ ModifyIdle
    /\ ZonalIdle /\ BucketIdle /\ GuardIdle /\ CreateIdle
NextImages == GetAmis \/ GetAmisFails
SpecImages == ImagesInit /\ [][NextImages]_vars

GuardInit ==
    InitGuard /\ NameIdle /\ ListIdle /\ ZListIdle /\ QualifyIdle /\ ModifyIdle
    /\ ZonalIdle /\ BucketIdle /\ ImagesIdle /\ CreateIdle
NextGuard ==
    \/ EnsureCheckEnabled \/ EnsureCheckNotEnabled \/ EnsureCheckFails
    \/ EnsureEnable \/ EnsureEnableFails
    \/ HandlerEnable \/ HandlerEnableFails
    \/ Constructed
    \/ EnableOperationDone \/ EnableOperationError
    \/ MethodRequest
SpecGuard == GuardInit /\ [][NextGuard]_vars

\* The three fan-out loops: over regions, over projects and zones, and the
\* guard's loop over projects.
FanOutInit == ListInit \/ ZListInit \/ GuardInit
NextFanOut ==
    \/ ListStart \/ ListRegion \/ ListRegionFails \/ ListReturn
    \/ ZListStart \/ ZListScope \/ ZListScopeFails \/ ZListReturn
    \/ EnsureCheckEnabled \/ EnsureCheckNotEnabled \/ EnsureCheckFails
    \/ EnsureEnable \/ EnsureEnableFails
    \/ HandlerEnable \/ HandlerEnableFails
    \/ Constructed
    \/ EnableOperationDone \/ EnableOperationError
    \/ MethodRequest
SpecFanOut == FanOutInit /\ [][NextFanOut]_vars

CreateInit ==
    InitCreate /\ NameIdle /\ ListIdle /\ ZListIdle /\ QualifyIdle /\ ModifyIdle
    /\ ZonalIdle /\ BucketIdle /\ ImagesIdle /\ GuardIdle
NextCreate == CreateRun \/ CreateRunFails \/ CreateTag \/ CreateTagFails
SpecCreate == CreateInit /\ [][NextCreate]_vars

\* The two create_instance operations, Regional and Zonal.
LateFailureInit == CreateInit \/ ZonalInit
NextLateFailure == NextCreate \/ NextZonal
SpecLateFailure == LateFailureInit /\ [][NextLateFailure]_vars

(***************************************************************************)
(* C1.  list_instances of the Regional Adapter returns exactly one         *)
(* Instance per vendor instance of every reservation of every configured   *)
(* region (none dropped, none duplicated), each with the vendor record's   *)
(* id, machine class and status, provider "aws" and the queried region as  *)
(* location, and the call issues only describe requests.                   *)
(***************************************************************************)
C1_ListExactlyOnePerVendorInstance ==
    lpc = "returned" =>
        /\ \A r \in Range(regions) : \A a \in DOMAIN ec2[r] : \A b \in DOMAIN ec2[r][a] :
              LET v == ec2[r][a][b]
                  hits == {k \in DOMAIN lresult :
                              /\ lresult[k].instance_id = v.InstanceId
                              /\ lresult[k].region = r}
              IN  /\ Cardinality(hits) = 1
                  /\ \A k \in hits :
                        /\ lresult[k].instance_type = v.InstanceType
                        /\ lresult[k].status = v.State.Name
        /\ \A k \in DOMAIN lresult :
              /\ lresult[k].provider = "aws"
              /\ lresult[k].region \in Range(regions)
              /\ \E a \in DOMAIN ec2[lresult[k].region] :
                    \E b \in DOMAIN ec2[lresult[k].region][a] :
                        ec2[lresult[k].region][a][b].InstanceId = lresult[k].instance_id
        /\ \A q \in Range(lreqs) : q.api = "describe_instances"

\* What the code does instead: one Instance per vendor instance for every
\* occurrence of its region in self.regions.
ListOnePerRegionOccurrence ==
    lpc = "returned" =>
        /\ \A r \in Regions : \A a \in DOMAIN ec2[r] : \A b \in DOMAIN ec2[r][a] :
              LET v == ec2[r][a][b]
                  hits == {k \in DOMAIN lresult :
                              /\ lresult[k].instance_id = v.InstanceId
                              /\ lresult[k].region = r}
              IN  /\ Cardinality(hits) = Cardinality({j \in DOMAIN regions : regions[j] = r})
                  /\ \A k \in hits :
                        /\ lresult[k].instance_type = v.InstanceType
                        /\ lresult[k].status = v.State.Name
        /\ \A k \in DOMAIN lresult :
              /\ lresult[k].provider = "aws"
              /\ lresult[k].region \in Range(regions)
        /\ \A q \in Range(lreqs) : q.api = "describe_instances"
        /\ Len(lreqs) = Len(regions)

\* The duplicate-free configurations, on which C1's statement holds.
ListNoRepeatedRegion ==
    (\A j, k \in DOMAIN regions : regions[j] = regions[k] => j = k)
        => C1_ListExactlyOnePerVendorInstance

(***************************************************************************)
(* C2.  list_instances of the Zonal Adapter returns exactly one Instance   *)
(* per vendor instance of every (project, zone) pair of the cross-product  *)
(* of the configured projects and zones, each with provider "gcp", scope   *)
(* the owning project, location the zone queried, id the decimal string of *)
(* the vendor's numeric id, the vendor's literal status and the vendor's   *)
(* machine-type path unmodified.                                           *)
(***************************************************************************)
DigitValue(c) == CHOOSE d \in 0..9 : Digits[d + 1] = c
RECURSIVE DecimalValue(_)
DecimalValue(s) ==
    IF Len(s) = 0 THEN 0
    ELSE 10 * DecimalValue(SubSeq(s, 1, Len(s) - 1)) + DigitValue(s[Len(s)])
IsDecimalOf(s, n) ==
    /\ Len(s) >= 1
    /\ \A k \in DOMAIN s : s[k] \in Range(Digits)
    /\ (Len(s) > 1 => s[1] # "0")
    /\ DecimalValue(s) = n

C2_ZListExactlyOnePerVendorInstance ==
    zpc = "returned" =>
        /\ \A p \in Range(projects) : \A z \in Range(zones) : \A b \in DOMAIN gce[p][z] :
              LET v == gce[p][z][b]
                  hits == {k \in DOMAIN zresult :
                              /\ IsDecimalOf(zresult[k].instance_id, v.id)
                              /\ zresult[k].project = Some(p)
                              /\ zresult[k].region = z}
              IN  /\ Cardinality(hits) = 1
                  /\ \A k \in hits :
                        /\ zresult[k].provider = "gcp"
                        /\ zresult[k].status = v.status
                        /\ zresult[k].instance_type = v.machine_type
                        /\ zresult[k].name = v.name
        /\ \A k \in DOMAIN zresult :
              \E p \in Range(projects) : \E z \in Range(zones) :
                  /\ zresult[k].project = Some(p) /\ zresult[k].region = z
                  /\ \E b \in DOMAIN gce[p][z] :
                        IsDecimalOf(zresult[k].instance_id, gce[p][z][b].id)

\* What the code does instead: one Instance per vendor instance for every
\* occurrence of its (project, zone) pair in the two configured lists.
ZListOnePerScopeOccurrence ==
    zpc = "returned" =>
        /\ \A p \in Projects : \A z \in Zones : \A b \in DOMAIN gce[p][z] :
              LET v == gce[p][z][b]
                  hits == {k \in DOMAIN zresult :
                              /\ IsDecimalOf(zresult[k].instance_id, v.id)
                              /\ zresult[k].project = Some(p)
                              /\ zresult[k].region = z}
              IN  /\ Cardinality(hits)
                        = Cardinality({j \in DOMAIN projects : projects[j] = p})
                            * Cardinality({j \in DOMAIN zones : zones[j] = z})
                  /\ \A k \in hits :
                        /\ zresult[k].provider = "gcp"
                        /\ zresult[k].status = v.status
                        /\ zresult[k].instance_type = v.machine_type
                        /\ zresult[k].name = v.name
        /\ Len(zreqs) = Len(projects) * Len(zones)
        /\ \A q \in Range(zreqs) : q.api = "list"

\* The duplicate-free configurations, on which C2's statement holds.
ZListNoRepeatedScope ==
    ((\A j, k \in DOMAIN projects : projects[j] = projects[k] => j = k)
        /\ (\A j, k \in DOMAIN zones : zones[j] = zones[k] => j = k))
        => C2_ZListExactlyOnePerVendorInstance

(***************************************************************************)
(* C4.  In create_instance of the Zonal Adapter a machine_class of the     *)
(* form zones/<zone>/machineTypes/<name> is sent to the vendor unchanged,  *)
(* also when its zone is not the call's zone; every other input, a full    *)
(* https URL and a project-prefixed path included, is sent as              *)
(* "zones/" + the call's zone + "/machineTypes/" + machine_class.          *)
(***************************************************************************)
\* zones/<zone>/machineTypes/<name>, zone and name runs of [a-z\d\-].
IsQualifiedPath(s) ==
    \E a \in 3..(Len(s) - 1) :
        /\ s[1] = LitZones /\ s[a] = LitMachineTypes
        /\ \A k \in (2..(a - 1)) \cup ((a + 1)..Len(s)) : s[k] \in ClassParts

QualifiedWith(zone, s) == <<LitZones, zone, LitMachineTypes>> \o s

C4_QualifiedUnchangedElseQualified ==
    qSent # None =>
        /\ IsQualifiedPath(qMachineType) => qSent[1] = qMachineType
        /\ ~IsQualifiedPath(qMachineType) =>
              qSent[1] = QualifiedWith(qZone, qMachineType)

\* What the code does: the claim's statement but for a qualified path
\* followed by one newline, which the pattern's $ accepts and which is
\* sent unchanged.
QualifyButForTrailingNewline ==
    qSent # None =>
        LET body == SubSeq(qMachineType, 1, Len(qMachineType) - 1)
            newlineEnded == /\ Len(qMachineType) >= 1
                            /\ qMachineType[Len(qMachineType)] = Newline
                            /\ IsQualifiedPath(body)
        IN  /\ IsQualifiedPath(qMachineType) \/ newlineEnded => qSent[1] = qMachineType
            /\ ~(IsQualifiedPath(qMachineType) \/ newlineEnded) =>
                  qSent[1] = QualifiedWith(qZone, qMachineType)

(***************************************************************************)
(* C3.  The Instance's name is the value of the first tag of the record's  *)
(* tag list whose key is exactly "Name"; other keys are ignored, a later   *)
(* "Name" tag never overrides the first, and a record with no tag list or  *)
(* no "Name" tag has name None.                                            *)
(***************************************************************************)
C3_NameIsFirstNameTag ==
    nOut # None =>
        LET out == nOut[1]
            named == IF "Tags" \in DOMAIN nInst
                     THEN {k \in DOMAIN nInst.Tags : nInst.Tags[k].Key = "Name"}
                     ELSE {}
        IN  /\ named = {} => out.name = None
            /\ named # {} =>
                  \E k \in named :
                      /\ \A j \in named : k <= j
                      /\ out.name = Some(nInst.Tags[k].Value)
            /\ out.instance_id = nInst.InstanceId

\* A record with two "Name" tags of different values, and one with none.
C3_Witness ==
    /\ nOut # None
    /\ "Tags" \in DOMAIN nInst
    /\ \E j, k \in DOMAIN nInst.Tags :
          /\ j < k
          /\ nInst.Tags[j].Key = "name"
          /\ nInst.Tags[k].Key = "Name"
          /\ \E m \in DOMAIN nInst.Tags :
                m > k /\ nInst.Tags[m].Key = "Name"
                      /\ nInst.Tags[m].Value # nInst.Tags[k].Value
          /\ nOut[1].name = Some(nInst.Tags[k].Value)

(***************************************************************************)
(* C5.  modify_instance of the Regional Adapter is additive: over every    *)
(* call, a tag that was on an instance before the call and whose key is    *)
(* not in the call's tag list is on the instance after it with the same    *)
(* value; only the keys given are added or overwritten, on the instance    *)
(* named only; and no call issues a tag-delete request.                    *)
(***************************************************************************)
C5_ModifyIsAdditive ==
    [][ /\ mCall' # None
        /\ LET call == mCall'[1]
           IN  \A id \in ModIds :
                  /\ \A j \in DOMAIN mTags[id] :
                        (id # call.instance_id \/ mTags[id][j].Key \notin KeysOf(call.tags))
                            => \E j2 \in DOMAIN mTags'[id] : mTags'[id][j2] = mTags[id][j]
                  /\ \A j2 \in DOMAIN mTags'[id] :
                        (\A j \in DOMAIN mTags[id] : mTags[id][j] # mTags'[id][j2])
                            => /\ id = call.instance_id
                               /\ mTags'[id][j2] \in Range(call.tags)
        /\ \A q \in Range(mReqs') : q.api # "delete_tags"
      ]_vars

\* A call with [env: prod] has overwritten env: dev and left owner: alice.
C5_Witness ==
    /\ mOutcome = "returned"
    /\ mCall = Some(ModifyArgs("i-0001", "us-east-1", <<Tag("env", "prod")>>))
    /\ mTags["i-0001"] = <<Tag("owner", "alice"), Tag("env", "prod")>>
    /\ mReqs = <<TagRequest("create_tags", "us-east-1", <<"i-0001">>, <<Tag("env", "prod")>>)>>

(***************************************************************************)
(* C6.  set_instance_labels of the Zonal Adapter is a full replacement:    *)
(* when the call has returned and no other caller's change was applied     *)
(* since it began, the instance's label map is exactly the given map, so a *)
(* label whose key is not in the given map is gone.                        *)
(***************************************************************************)
C6_SetLabelsReplaces ==
    \A c \in Callers :
        (/\ cpc[c] = "returned"
         /\ cCall[c] # None
         /\ cCall[c][1].kind = "set_labels"
         /\ cClean[c])
            => /\ gInst # None
               /\ gInst[1].labels = cCall[c][1].arg

\* Prior labels {env: dev, team: x}, given {env: prod}: only {env: prod} is left.
C6_Witness ==
    \E c \in Callers :
        /\ cpc[c] = "returned" /\ cClean[c]
        /\ cCall[c] # None /\ cCall[c][1].kind = "set_labels"
        /\ cCall[c][1].arg = {Label("env", "prod")}
        /\ cLocal[c] # None
        /\ cLocal[c][1].labels = {Label("env", "dev"), Label("team", "x")}
        /\ gInst # None /\ gInst[1].labels = {Label("env", "prod")}

(***************************************************************************)
(* C7.  When the operation the insert request returned resolves to a       *)
(* failure, create_instance of the Zonal Adapter raises an                 *)
(* operation-failed error, never issues the get request and returns no     *)
(* instance record.                                                        *)
(***************************************************************************)
C7_FailedInsertRaises ==
    \A c \in Callers :
        (/\ cCall[c] # None
         /\ cCall[c][1].kind = "create"
         /\ gOp[c] # None
         /\ gOp[c][1].status = "error")
            => /\ cpc[c] \in {"wait", "raised"}
               /\ cpc[c] = "raised" => cErr[c] = Some("operation-failed")
               /\ \A k \in DOMAIN cReqs[c] : cReqs[c][k] # "get"
               /\ cResult[c] = None

C7_Witness ==
    \E c \in Callers :
        /\ cCall[c] # None /\ cCall[c][1].kind = "create"
        /\ gOp[c] # None /\ gOp[c][1].kind = "insert" /\ gOp[c][1].status = "error"
        /\ cpc[c] = "raised" /\ cErr[c] = Some("operation-failed")
        /\ cReqs[c] = <<"insert">>

(***************************************************************************)
(* C8.  A mutating call of the Zonal Adapter (create_instance,             *)
(* delete_instance, set_instance_labels, set_instance_metadata) has        *)
(* returned only if the operation of its own request is resolved, and      *)
(* create_instance has issued its get request only if its insert operation *)
(* is resolved.                                                            *)
(***************************************************************************)
RequestOf(kind) ==
    CASE kind = "create" -> "insert"
      [] kind = "delete" -> "delete"
      [] kind = "set_labels" -> "set_labels"
      [] kind = "set_metadata" -> "set_metadata"

C8_ReturnsOnlyAfterResolved ==
    \A c \in Callers :
        (cCall[c] # None
            /\ cCall[c][1].kind \in {"create", "delete", "set_labels", "set_metadata"})
            => /\ cpc[c] = "returned" =>
                    /\ gOp[c] # None
                    /\ gOp[c][1].kind = RequestOf(cCall[c][1].kind)
                    /\ gOp[c][1].status # "pending"
               /\ (cCall[c][1].kind = "create"
                     /\ \E k \in DOMAIN cReqs[c] : cReqs[c][k] = "get") =>
                    /\ gOp[c] # None
                    /\ gOp[c][1].kind = "insert"
                    /\ gOp[c][1].status # "pending"

\* One caller has returned from create_instance, the other from delete_instance.
C8_Witness ==
    \E c, d \in Callers :
        /\ cpc[c] = "returned" /\ cCall[c] # None /\ cCall[c][1].kind = "create"
        /\ cReqs[c] = <<"insert", "get">> /\ gOp[c][1].status = "done"
        /\ cpc[d] = "returned" /\ cCall[d] # None /\ cCall[d][1].kind = "delete"
        /\ gOp[d][1].status = "done"

(***************************************************************************)
(* C9: force_delete_bucket on a bucket holding N objects issues exactly N  *)
(* object-delete requests, one per object, all of them before the single   *)
(* bucket-delete request, which is its last request; the bucket is empty   *)
(* when the bucket-delete request is issued, so that request is never      *)
(* refused for a non-empty bucket; with N = 0 the listing is followed by   *)
(* the bucket-delete request alone, and a call that returns leaves no      *)
(* bucket behind.                                                          *)
(***************************************************************************)
ApiAt(k) == bReqs[k].api
BucketDeleteAt == {k \in DOMAIN bReqs : ApiAt(k) = "delete_bucket"}
ObjectDeleteAt == {k \in DOMAIN bReqs : ApiAt(k) = "delete_blob"}

ForceRequestsInOrder ==
    (bCall = "force" /\ BucketDeleteAt # {}) =>
        /\ BucketDeleteAt = {Len(bReqs)}
        /\ ApiAt(1) = "list_blobs"
        /\ ObjectDeleteAt = 2..(Len(bReqs) - 1)
        /\ Cardinality(ObjectDeleteAt) = Cardinality(bStart[1])
        /\ {bReqs[k].object : k \in ObjectDeleteAt} = bStart[1]
        /\ \A j, k \in ObjectDeleteAt : bReqs[j].object = bReqs[k].object => j = k
        /\ (bStart = Some({}) =>
               bReqs = <<StorageRequest("list_blobs", ""),
                         StorageRequest("delete_bucket", "")>>)
        /\ bErr # Some("conflict")
        /\ (bpc = "returned" => bObjects = None)

ForceBucketDeleteIssued ==
    /\ bCall' = "force"
    /\ bReqs' = Append(bReqs, StorageRequest("delete_bucket", ""))

C9_ForceDeleteEmptiesFirst ==
    /\ []ForceRequestsInOrder
    /\ [][ForceBucketDeleteIssued => bObjects = Some({})]_vars

C9_Witness ==
    /\ bCall = "force" /\ bpc = "returned"
    /\ Cardinality(bStart[1]) >= 2
    /\ Cardinality(ObjectDeleteAt) = Cardinality(bStart[1])
    /\ bObjects = None

(***************************************************************************)
(* C10: get_amis returns a permutation of the vendor's image list, no      *)
(* image added or dropped, in which each entry's creation timestamp is     *)
(* greater than or equal to that of the entry after it, so that the first  *)
(* entry is the most recent image, whatever the order the vendor reported. *)
(***************************************************************************)
VendorImage(id) == iImages[CHOOSE k \in DOMAIN iImages : iImages[k].ImageId = id]
CreatedAt(id) == DecimalValue(VendorImage(id).CreationDate)

C10_NewestFirstPermutation ==
    iResult # None =>
        LET result == iResult[1]
        IN  /\ Len(result) = Len(iImages)
            /\ \E f \in [DOMAIN result -> DOMAIN iImages] :
                  /\ \A j, k \in DOMAIN result : f[j] = f[k] => j = k
                  /\ \A k \in DOMAIN result : result[k].ImageId = iImages[f[k]].ImageId
            /\ \A k \in 1..(Len(result) - 1) :
                  CreatedAt(result[k].ImageId) >= CreatedAt(result[k + 1].ImageId)
            /\ \A k \in DOMAIN iImages :
                  CreatedAt(result[1].ImageId) >= DecimalValue(iImages[k].CreationDate)

C10_Witness ==
    /\ Len(iImages) = 3
    /\ [k \in 1..3 |-> iImages[k].CreationDate] = << <<"0", "7">>, <<"2", "1">>, <<"1", "0">> >>
    /\ iResult # None
    /\ [k \in 1..3 |-> iResult[1][k].ImageId] =
           <<iImages[2].ImageId, iImages[3].ImageId, iImages[1].ImageId>>

(***************************************************************************)
(* C11: during construction of the Zonal adapter each configured project   *)
(* is checked exactly once, in configuration order; a project reported     *)
(* ENABLED receives no enable request, a project reported in another state *)
(* or whose check raised receives one; when the constructor has returned,  *)
(* the compute API of every configured project is enabled; and no method   *)
(* of the constructed adapter issues a check or an enable request.         *)
(***************************************************************************)
ChecksAt == {k \in DOMAIN sReqs : sReqs[k].api = "services.get"}
EnablesAt == {k \in DOMAIN sReqs : sReqs[k].api = "services.enable"}
CheckedProjects == [k \in 1..Cardinality(ChecksAt) |->
    sReqs[CHOOSE c \in ChecksAt : Cardinality({d \in ChecksAt : d <= c}) = k].project]

\* The guard's answer to each check: an enable request follows a check
\* exactly when the check did not report ENABLED.
GuardAnswersChecks ==
    \A k \in ChecksAt :
        /\ (sReqs[k].answer = "ENABLED" => k + 1 \notin EnablesAt)
        /\ (sReqs[k].answer # "ENABLED" /\ k < Len(sReqs) =>
               /\ k + 1 \in EnablesAt
               /\ sReqs[k + 1].project = sReqs[k].project)
        /\ (spc = "constructed" /\ sReqs[k].answer # "ENABLED" => k < Len(sReqs))

NoGuardRequestByMethods ==
    sMethod # None => sMethod[1].api \notin {"services.get", "services.enable"}

C11_GuardChecksOnceAndEnables ==
    /\ GuardAnswersChecks
    /\ NoGuardRequestByMethods
    /\ (spc = "constructed" =>
           /\ \A p \in Range(sProjects) :
                 Cardinality({k \in ChecksAt : sReqs[k].project = p}) = 1
           /\ \A p \in Range(sProjects) : sService[p] = "ENABLED")

\* What holds of the guard: one check per entry of the project list, in the
\* list's order, answered as above, and the constructor's request log never
\* grows once the adapter is constructed.
GuardChecksEachEntryInOrder ==
    /\ GuardAnswersChecks
    /\ NoGuardRequestByMethods
    /\ (spc = "constructed" => CheckedProjects = sProjects)
    /\ \A k \in DOMAIN CheckedProjects : CheckedProjects[k] = sProjects[k]

GuardRunsOnlyInConstructor == [][spc = "constructed" => sReqs' = sReqs]_vars

(***************************************************************************)
(* C12: no request is retried: in the construction of the Zonal adapter a  *)
(* vendor request that failed is never issued again, the guard issues at   *)
(* most one enable request for a project it handles, and a failed enable   *)
(* request ends the constructor with an error for the caller.              *)
(***************************************************************************)
SameRequest(a, b) == a.api = b.api /\ a.project = b.project

C12_NoRequestIssuedAgain ==
    /\ \A k \in DOMAIN sReqs :
          (sReqs[k].answer = "error" /\ k < Len(sReqs)) =>
              ~SameRequest(sReqs[k], sReqs[k + 1])
    /\ \A k \in EnablesAt : k + 1 \notin EnablesAt
    /\ \A k \in EnablesAt :
          sReqs[k].answer = "error" => (k = Len(sReqs) /\ spc = "raised")

\* What holds instead: the guard issues at most two enable requests in a
\* row, the second only after the first raised, and the second one's error
\* ends the constructor.
GuardEnablesAtMostTwice ==
    /\ \A k \in EnablesAt :
          k + 1 \in EnablesAt =>
              /\ sReqs[k].answer = "error"
              /\ k + 2 \notin EnablesAt
              /\ k - 1 \in ChecksAt /\ sReqs[k - 1].answer \notin {"ENABLED", "error"}
    /\ (spc = "raised" <=>
           (sReqs # <<>> /\ sReqs[Len(sReqs)].api = "services.enable"
            /\ sReqs[Len(sReqs)].answer = "error" /\ spc # "handler"))

(***************************************************************************)
(* C13: a fan-out aborts on its first error.  When the vendor request for  *)
(* one region fails in the Regional list_compute_instances, or for one     *)
(* project and zone in the Zonal one, the call raises that error, returns  *)
(* no instance, not even those collected from earlier scopes, and has      *)
(* issued no request for a later scope; when the guard's activation of one *)
(* project raises, the constructor raises that error, has issued no        *)
(* request for a later project, and leaves no adapter: no client is built  *)
(* and no method is ever called.                                           *)
(***************************************************************************)
ListAbortsOnError ==
    lerr # None =>
        /\ lpc = "raised"
        /\ lresult = <<>>
        /\ li <= Len(regions) /\ Len(lreqs) = li
        /\ lerr[1] \in DescribeErrors(regions[li])
        /\ \A k \in 1..li : lreqs[k] = AwsRequest("describe_instances", regions[k])

ZListAbortsOnError ==
    zerr # None =>
        /\ zpc = "raised" /\ zerr[1] \in GcpErrors
        /\ zresult = <<>>
        /\ zpi <= Len(projects) /\ zzi <= Len(zones)
        /\ Len(zreqs) = (zpi - 1) * Len(zones) + zzi
        /\ zreqs[Len(zreqs)] = GcpRequest("list", projects[zpi], zones[zzi])

GuardAbortsOnError ==
    /\ (sErr # None <=> spc = "raised")
    /\ sErr # None =>
          /\ sErr[1] \in GcpErrors
          /\ sClient = None /\ sStorage = None /\ sMethod = None
          /\ si <= Len(sProjects)
          /\ Cardinality(ChecksAt) = si
          /\ sReqs[Len(sReqs)].project = sProjects[si]
          /\ sReqs[Len(sReqs)].answer = "error"

InSetLabels(c) == cCall[c] # None /\ cCall[c][1].kind = "set_labels"

SubmitsFingerprintRead ==
    \A c \in Callers :
        (InSetLabels(c) /\ gOp[c] # None) =>
            /\ cReqs[c] = <<"get", "set_labels">>
            /\ gOp[c][1].body.label_fingerprint = cLocal[c][1].label_fingerprint

StaleRequestIsConflict(c) ==
    (/\ InSetLabels(c)
     /\ cReqs[c] = <<"get">>
     /\ cReqs'[c] = <<"get", "set_labels">>
     /\ gInst # None
     /\ gInst[1].label_fingerprint # cLocal[c][1].label_fingerprint)
        => /\ cpc'[c] = "raised"
           /\ cErr'[c] = Some("conflict")
           /\ gOp'[c] = None
           /\ gInst' = gInst

AppliedOnlyToLabelsRead(c) ==
    (/\ InSetLabels(c)
     /\ gOp[c] # None /\ gOp[c][1].status = "pending"
     /\ gOp'[c] # None /\ gOp'[c][1].status = "done")
        => /\ gInst # None
           /\ gInst[1].label_fingerprint = cLocal[c][1].label_fingerprint
           /\ gInst[1].labels = cLocal[c][1].labels

C14_FingerprintGuardsLabels ==
    /\ []SubmitsFingerprintRead
    /\ [][\A c \in Callers : StaleRequestIsConflict(c) /\ AppliedOnlyToLabelsRead(c)]_vars

\* One caller's set-labels request refused for the update another caller's
\* set_instance_labels applied after the first one's get.
C14_Witness ==
    \E c, d \in Callers :
        /\ c # d
        /\ InSetLabels(c) /\ InSetLabels(d)
        /\ cpc[c] = "raised" /\ cErr[c] = Some("conflict")
        /\ cReqs[c] = <<"get", "set_labels">>
        /\ cpc[d] = "returned" /\ cClean[d]
        /\ gInst # None
        /\ gInst[1].labels = cCall[d][1].arg
        /\ gInst[1].labels # cCall[c][1].arg
        /\ cLocal[c][1].label_fingerprint # gInst[1].label_fingerprint

(***************************************************************************)
(* C15: when the describe request for a configured region r fails, the     *)
(* error list_compute_instances raises identifies r: the region is part of *)
(* what the error says.                                                    *)
(***************************************************************************)
C15_ListErrorNamesRegion ==
    lpc = "raised" =>
        /\ lerr # None
        /\ regions[li] \in Range(ErrorText(lerr[1]))

\* What holds instead: the error raised is the vendor's own error for the
\* request of the failing region, with nothing added.
ListErrorIsVendorError ==
    lpc = "raised" =>
        /\ lerr # None
        /\ lerr[1] \in DescribeErrors(regions[li])
        /\ lreqs[Len(lreqs)] = AwsRequest("describe_instances", regions[li])

(***************************************************************************)
(* C16: the credentials and the client handles of the Zonal adapter are    *)
(* built once, by the constructor: every vendor request, by the            *)
(* constructor's guard or by any method, is made with the credentials the  *)
(* constructor built from credentials_file (or the default ones without    *)
(* it), and the handles of the constructed adapter carry them.             *)
(***************************************************************************)
C16_RequestsUseConstructorCredentials ==
    /\ \A k \in DOMAIN sReqs : sReqs[k].cred = ConstructorCredentials(sCredFile)
    /\ sMethod # None => sMethod[1].cred = ConstructorCredentials(sCredFile)
    /\ spc = "constructed" =>
          /\ sServiceUsage = ConstructorCredentials(sCredFile)
          /\ sClient = Some(ConstructorCredentials(sCredFile))
          /\ sStorage = Some(ConstructorCredentials(sCredFile))

\* What holds: the requests of the guard, of list_compute_instances and of
\* the bucket methods come with the constructor's credentials, and no
\* method changes the adapter's configuration or its handles.
HandleRequestsUseConstructorCredentials ==
    /\ \A k \in DOMAIN sReqs : sReqs[k].cred = ConstructorCredentials(sCredFile)
    /\ (sMethod # None /\ sMethod[1].api \in BucketMethods \cup {"list_compute_instances"})
          => sMethod[1].cred = ConstructorCredentials(sCredFile)
    /\ (sMethod # None /\ sMethod[1].api \notin BucketMethods \cup {"list_compute_instances"})
          => sMethod[1].cred = DefaultCredentials

MethodsLeaveAdapterUnchanged ==
    [][spc = "constructed" =>
          UNCHANGED <<sCredFile, sProjects, sServiceUsage, sClient, sStorage>>]_vars

(***************************************************************************)
(* C17: the Regional create_instance issues one run request whose MinCount *)
(* and MaxCount both equal count; it issues a single Name-tag request, for *)
(* all the ids of the run response, after the run request succeeded and    *)
(* exactly when name is non-empty, never before or without a successful    *)
(* run request; and a call that returns returns exactly the ids of the     *)
(* instances the run request launched.                                     *)
(***************************************************************************)
RunsAt == {k \in DOMAIN rReqs : rReqs[k].api = "run_instances"}
NameTagsAt == {k \in DOMAIN rReqs : rReqs[k].api = "create_tags"}

C17_RunThenTagOnce ==
    rpc \in {"tag", "returned", "raised"} =>
        /\ RunsAt = {1}
        /\ rReqs[1].MinCount = rCount /\ rReqs[1].MaxCount = rCount
        /\ NameTagsAt \subseteq {2} /\ Len(rReqs) <= 2
        /\ NameTagsAt # {} =>
              /\ rName # ""
              /\ rIds # <<>>
              /\ Range(rIds) = DOMAIN rStore \ rBefore
              /\ rReqs[2] = NameTagRequest(rIds, rName)
        /\ rpc = "returned" =>
              /\ (NameTagsAt # {} <=> rName # "")
              /\ rResult = Some(rIds)
              /\ Len(rIds) = rCount
              /\ \A j, k \in DOMAIN rIds : rIds[j] = rIds[k] => j = k
              /\ Range(rIds) = DOMAIN rStore \ rBefore
              /\ rName # "" =>
                    \A id \in Range(rIds) : rStore[id] = <<Tag("Name", rName)>>
        /\ (rpc = "raised" /\ NameTagsAt = {}) =>
              /\ rIds = <<>> /\ DOMAIN rStore = rBefore

C17_Witness ==
    /\ rpc = "returned"
    /\ rName = "web-1" /\ rCount = 2
    /\ Len(rReqs) = 2
    /\ rResult = Some(rIds) /\ Len(rIds) = 2
    /\ rBefore # {}

(***************************************************************************)
(* C18: a create that fails late is not rolled back.  When the Name-tag    *)
(* request of the Regional create_instance raises after the run request    *)
(* succeeded, the call raises and returns nothing, the launched instances  *)
(* exist at the vendor without the tag, and the call has issued no         *)
(* terminate request.  When the get request of the Zonal create_instance   *)
(* raises after the insert operation resolved successfully, the call       *)
(* raises and returns nothing, it has issued no delete request, and the    *)
(* instance exists at the vendor unless another caller's change was        *)
(* applied since.                                                          *)
(***************************************************************************)
RegionalLateFailure ==
    (rpc = "raised" /\ rIds # <<>>) =>
        /\ rErr # None /\ rResult = None
        /\ Len(rReqs) = 2
        /\ rReqs[1].api = "run_instances"
        /\ rReqs[2] = NameTagRequest(rIds, rName)
        /\ \A id \in Range(rIds) : id \in DOMAIN rStore /\ rStore[id] = <<>>

ZonalLateFailure ==
    \A c \in Callers :
        (/\ cCall[c] # None /\ cCall[c][1].kind = "create"
         /\ cpc[c] = "raised"
         /\ gOp[c] # None /\ gOp[c][1].status = "done")
            => /\ cErr[c] # None /\ cResult[c] = None
               /\ cReqs[c] = <<"insert", "get">>
               /\ cClean[c] =>
                     /\ gInst # None
                     /\ gInst[1].name = gOp[c][1].body.name
                     /\ gInst[1].label_fingerprint = cCall[c][1].token

C18_LateFailureLeavesInstances ==
    /\ RegionalLateFailure
    /\ ZonalLateFailure

C18_Witness ==
    /\ rpc = "raised" /\ rErr # None
    /\ rName = "web-1" /\ rCount = 2 /\ Len(rIds) = 2
    /\ Len(rReqs) = 2
    /\ \A id \in Range(rIds) : id \in DOMAIN rStore /\ rStore[id] = <<>>

\* The Zonal case: the get of a create raised after the insert was done, and
\* the instance is there.
ZonalLateFailureReached ==
    \E c \in Callers :
        /\ cCall[c] # None /\ cCall[c][1].kind = "create"
        /\ cpc[c] = "raised" /\ cReqs[c] = <<"insert", "get">>
        /\ gOp[c] # None /\ gOp[c][1].status = "done"
        /\ cClean[c] /\ gInst # None

====
